---- MODULE Spec2Model ----
(***************************************************************************)
(* Diagnosis engine of n8n_dev_mcp: the log-line classifier and the        *)
(* container diagnosis tools of app/services/docker.py, and the execution  *)
(* trace diagnoser of app/services/debugger.py.                            *)
(*                                                                         *)
(* Text is modelled character by character: a string is a sequence of      *)
(* one-character strings, a log text is the sequence of its lines (what    *)
(* logs.split('\n') yields; the split is a bijection between texts and     *)
(* non-empty sequences of newline-free lines).  A regular expression of    *)
(* ERROR_PATTERNS is the sequence of its alternatives, an alternative the  *)
(* sequence of the literals that ".*" separates.                           *)
(***************************************************************************)
EXTENDS Integers, Sequences, FiniteSets, TLC

None == "None"

(***************************************************************************)
(* Strings                                                                 *)
(***************************************************************************)
\* str.lower() on the characters the model uses (ASCII letters)
LowerChar(c) ==
  CASE c = "A" -> "a" [] c = "B" -> "b" [] c = "C" -> "c" [] c = "D" -> "d"
    [] c = "E" -> "e" [] c = "F" -> "f" [] c = "G" -> "g" [] c = "H" -> "h"
    [] c = "I" -> "i" [] c = "J" -> "j" [] c = "K" -> "k" [] c = "L" -> "l"
    [] c = "M" -> "m" [] c = "N" -> "n" [] c = "O" -> "o" [] c = "P" -> "p"
    [] c = "Q" -> "q" [] c = "R" -> "r" [] c = "S" -> "s" [] c = "T" -> "t"
    [] c = "U" -> "u" [] c = "V" -> "v" [] c = "W" -> "w" [] c = "X" -> "x"
    [] c = "Y" -> "y" [] c = "Z" -> "z" [] OTHER -> c

Lower(s) == [i \in 1..Len(s) |-> LowerChar(s[i])]

\* the least position >= from at which sub occurs in s, 0 when there is none
RECURSIVE Find(_, _, _)
Find(sub, s, from) ==
  IF from + Len(sub) - 1 > Len(s) THEN 0
  ELSE IF SubSeq(s, from, from + Len(sub) - 1) = sub THEN from
  ELSE Find(sub, s, from + 1)

\* sub in s
Contains(sub, s) == Find(sub, s, 1) # 0

IsSpace(c) == c \in {" ", "\t", "\r"}

\* str.strip(): leading and trailing whitespace removed
RECURSIVE LStrip(_)
LStrip(s) == IF s # <<>> /\ IsSpace(Head(s)) THEN LStrip(Tail(s)) ELSE s

RECURSIVE RStrip(_)
RStrip(s) ==
  IF s # <<>> /\ IsSpace(s[Len(s)]) THEN RStrip(SubSeq(s, 1, Len(s) - 1)) ELSE s

Strip(s) == RStrip(LStrip(s))

\* s[:n] with the bound lost
Take_unbounded(s, n) == s

\* s[:n]
Take(s, n) == SubSeq(s, 1, IF Len(s) < n THEN Len(s) ELSE n)

(***************************************************************************)
(* ERROR_PATTERNS, in declaration order                                    *)
(***************************************************************************)
ERROR_PATTERNS ==
  <<
    [error_name |-> "connection_refused", severity |-> "high",
     recommendation |-> "Service dependency not reachable. Check if the target service is running and network is configured correctly.",
     pattern |-> <<
        << <<"c","o","n","n","e","c","t","i","o","n"," ","r","e","f","u","s","e","d">> >>,  \* connection refused
        << <<"E","C","O","N","N","R","E","F","U","S","E","D">> >>,  \* ECONNREFUSED
        << <<"c","o","n","n","e","c","t"," ","E","C","O","N","N","R","E","F","U","S","E","D">> >>   \* connect ECONNREFUSED
     >>],
    [error_name |-> "permission_denied", severity |-> "high",
     recommendation |-> "File or directory permission issue. Check volume mounts and file ownership.",
     pattern |-> <<
        << <<"p","e","r","m","i","s","s","i","o","n"," ","d","e","n","i","e","d">> >>,  \* permission denied
        << <<"E","A","C","C","E","S">> >>,  \* EACCES
        << <<"a","c","c","e","s","s"," ","d","e","n","i","e","d">> >>   \* access denied
     >>],
    [error_name |-> "out_of_memory", severity |-> "critical",
     recommendation |-> "Container ran out of memory. Increase memory limits or optimize application memory usage.",
     pattern |-> <<
        << <<"o","u","t"," ","o","f"," ","m","e","m","o","r","y">> >>,  \* out of memory
        << <<"O","O","M">> >>,  \* OOM
        << <<"k","i","l","l","e","d">> >>,  \* killed
        << <<"c","a","n","n","o","t"," ","a","l","l","o","c","a","t","e"," ","m","e","m","o","r","y">> >>   \* cannot allocate memory
     >>],
    [error_name |-> "port_in_use", severity |-> "high",
     recommendation |-> "Port conflict. Another process is using the same port. Change port mapping or stop the conflicting process.",
     pattern |-> <<
        << <<"a","d","d","r","e","s","s"," ","a","l","r","e","a","d","y"," ","i","n"," ","u","s","e">> >>,  \* address already in use
        << <<"E","A","D","D","R","I","N","U","S","E">> >>,  \* EADDRINUSE
        << <<"p","o","r","t">>, <<"a","l","r","e","a","d","y">>, <<"a","l","l","o","c","a","t","e","d">> >>   \* port.*already.*allocated
     >>],
    [error_name |-> "database_connection", severity |-> "high",
     recommendation |-> "Database connection failed. Verify database credentials, host, and port configuration.",
     pattern |-> <<
        << <<"d","a","t","a","b","a","s","e">>, <<"c","o","n","n","e","c","t","i","o","n">> >>,  \* database.*connection
        << <<"E","N","O","T","F","O","U","N","D">>, <<"p","o","s","t","g","r","e","s">> >>,  \* ENOTFOUND.*postgres
        << <<"m","y","s","q","l">>, <<"d","e","n","i","e","d">> >>,  \* mysql.*denied
        << <<"m","o","n","g","o","d","b">>, <<"f","a","i","l","e","d">> >>   \* mongodb.*failed
     >>],
    [error_name |-> "api_error", severity |-> "medium",
     recommendation |-> "API authentication error. Check API keys, tokens, or credentials.",
     pattern |-> <<
        << <<"4","0","1">> >>,  \* 401
        << <<"4","0","3">> >>,  \* 403
        << <<"u","n","a","u","t","h","o","r","i","z","e","d">> >>,  \* unauthorized
        << <<"f","o","r","b","i","d","d","e","n">> >>,  \* forbidden
        << <<"i","n","v","a","l","i","d">>, <<"t","o","k","e","n">> >>,  \* invalid.*token
        << <<"a","u","t","h","e","n","t","i","c","a","t","i","o","n">>, <<"f","a","i","l","e","d">> >>   \* authentication.*failed
     >>],
    [error_name |-> "timeout", severity |-> "medium",
     recommendation |-> "Operation timed out. Check network connectivity or increase timeout limits.",
     pattern |-> <<
        << <<"t","i","m","e","o","u","t">> >>,  \* timeout
        << <<"E","T","I","M","E","D","O","U","T">> >>,  \* ETIMEDOUT
        << <<"t","i","m","e","d"," ","o","u","t">> >>,  \* timed out
        << <<"c","o","n","t","e","x","t"," ","d","e","a","d","l","i","n","e"," ","e","x","c","e","e","d","e","d">> >>   \* context deadline exceeded
     >>],
    [error_name |-> "file_not_found", severity |-> "medium",
     recommendation |-> "Missing file or module. Check volume mounts, paths, and dependencies.",
     pattern |-> <<
        << <<"n","o"," ","s","u","c","h"," ","f","i","l","e">> >>,  \* no such file
        << <<"E","N","O","E","N","T">> >>,  \* ENOENT
        << <<"n","o","t"," ","f","o","u","n","d">> >>,  \* not found
        << <<"f","i","l","e"," ","n","o","t"," ","f","o","u","n","d">> >>,  \* file not found
        << <<"m","o","d","u","l","e"," ","n","o","t"," ","f","o","u","n","d">> >>   \* module not found
     >>],
    [error_name |-> "syntax_error", severity |-> "high",
     recommendation |-> "Code syntax error. Review recent code changes for syntax issues.",
     pattern |-> <<
        << <<"s","y","n","t","a","x"," ","e","r","r","o","r">> >>,  \* syntax error
        << <<"S","y","n","t","a","x","E","r","r","o","r">> >>,  \* SyntaxError
        << <<"p","a","r","s","e"," ","e","r","r","o","r">> >>,  \* parse error
        << <<"u","n","e","x","p","e","c","t","e","d"," ","t","o","k","e","n">> >>   \* unexpected token
     >>],
    [error_name |-> "configuration_error", severity |-> "medium",
     recommendation |-> "Configuration or environment variable issue. Check .env file and docker-compose.yml.",
     pattern |-> <<
        << <<"i","n","v","a","l","i","d">>, <<"c","o","n","f","i","g">> >>,  \* invalid.*config
        << <<"c","o","n","f","i","g","u","r","a","t","i","o","n">>, <<"e","r","r","o","r">> >>,  \* configuration.*error
        << <<"e","n","v">>, <<"n","o","t">>, <<"s","e","t">> >>,  \* env.*not.*set
        << <<"m","i","s","s","i","n","g">>, <<"e","n","v","i","r","o","n","m","e","n","t">> >>   \* missing.*environment
     >>],
    [error_name |-> "ssl_certificate", severity |-> "medium",
     recommendation |-> "SSL/TLS certificate issue. Check certificate validity or disable SSL verification for development.",
     pattern |-> <<
        << <<"s","s","l">> >>,  \* ssl
        << <<"c","e","r","t","i","f","i","c","a","t","e">> >>,  \* certificate
        << <<"x","5","0","9">> >>,  \* x509
        << <<"T","L","S">> >>,  \* TLS
        << <<"s","e","l","f","-","s","i","g","n","e","d">> >>   \* self-signed
     >>],
    [error_name |-> "dns_resolution", severity |-> "medium",
     recommendation |-> "DNS resolution failed. Check network configuration and container DNS settings.",
     pattern |-> <<
        << <<"g","e","t","a","d","d","r","i","n","f","o">> >>,  \* getaddrinfo
        << <<"E","A","I","_","A","G","A","I","N">> >>,  \* EAI_AGAIN
        << <<"d","n","s">> >>,  \* dns
        << <<"n","a","m","e"," ","r","e","s","o","l","u","t","i","o","n">> >>,  \* name resolution
        << <<"c","o","u","l","d"," ","n","o","t"," ","r","e","s","o","l","v","e">> >>   \* could not resolve
     >>],
    [error_name |-> "crash_restart", severity |-> "critical",
     recommendation |-> "Container crashed. Check application logs for the root cause before restart.",
     pattern |-> <<
        << <<"e","x","i","t","e","d"," ","w","i","t","h"," ","c","o","d","e">> >>,  \* exited with code
        << <<"f","a","t","a","l">> >>,  \* fatal
        << <<"p","a","n","i","c">> >>,  \* panic
        << <<"s","e","g","f","a","u","l","t">> >>,  \* segfault
        << <<"c","o","r","e"," ","d","u","m","p","e","d">> >>   \* core dumped
     >>]
  >>

\* the generic error indicators of _analyze_log_errors
ERROR_INDICATORS ==
  << <<"e","r","r","o","r">>,
     <<"e","r","r">>,
     <<"f","a","t","a","l">>,
     <<"c","r","i","t","i","c","a","l">>,
     <<"e","x","c","e","p","t","i","o","n">>,
     <<"f","a","i","l","e","d">>,
     <<"f","a","i","l","u","r","e">>,
     <<"d","e","n","i","e","d">>,
     <<"r","e","f","u","s","e","d">>,
     <<"t","i","m","e","o","u","t">> >>
(***************************************************************************)
(* Log lines the model draws texts from                                    *)
(***************************************************************************)
\* "2024-01-01 ERROR: connection refused to db:5432"
LineRefused ==
  <<"2","0","2","4","-","0","1","-","0","1"," ","E","R","R","O","R",":"," ","c","o","n","n","e","c","t","i","o","n"," ","r","e","f","u","s","e","d"," ","t","o"," ","d","b",":","5","4","3","2">>

\* "2024-01-01 INFO: retry scheduled"
LineInfo ==
  <<"2","0","2","4","-","0","1","-","0","1"," ","I","N","F","O",":"," ","r","e","t","r","y"," ","s","c","h","e","d","u","l","e","d">>

\* "connection refused: OOM killed"
LineRefusedOom ==
  <<"c","o","n","n","e","c","t","i","o","n"," ","r","e","f","u","s","e","d",":"," ","O","O","M"," ","k","i","l","l","e","d">>

\* "OOM killed process 42"
LineKilled ==
  <<"O","O","M"," ","k","i","l","l","e","d"," ","p","r","o","c","e","s","s"," ","4","2">>

\* "FATAL: out of memory"
LineFatalOom ==
  <<"F","A","T","A","L",":"," ","o","u","t"," ","o","f"," ","m","e","m","o","r","y">>

\* "Error: request timeout 401"
LineTimeout401 ==
  <<"E","r","r","o","r",":"," ","r","e","q","u","e","s","t"," ","t","i","m","e","o","u","t"," ","4","0","1">>

\* "ERROR something broke"
LineGeneric ==
  <<"E","R","R","O","R"," ","s","o","m","e","t","h","i","n","g"," ","b","r","o","k","e">>

\* "Interrupt received"
LineInterrupt ==
  <<"I","n","t","e","r","r","u","p","t"," ","r","e","c","e","i","v","e","d">>

\* "error: port 80 is already allocated"
LinePort ==
  <<"e","r","r","o","r",":"," ","p","o","r","t"," ","8","0"," ","i","s"," ","a","l","r","e","a","d","y"," ","a","l","l","o","c","a","t","e","d">>

\* "Connection REFUSED by peer"
LineRefusedUpper ==
  <<"C","o","n","n","e","c","t","i","o","n"," ","R","E","F","U","S","E","D"," ","b","y"," ","p","e","e","r">>

\* "  "
LineBlank ==
  <<" "," ">>

\* ""
LineEmpty ==
  <<>>

KnownLines ==
  { LineRefused, LineInfo, LineRefusedOom, LineKilled, LineFatalOom, LineTimeout401, LineGeneric, LineInterrupt, LinePort, LineRefusedUpper, LineBlank, LineEmpty }

LogVocabulary == KnownLines

(***************************************************************************)
(* _analyze_log_errors                                                     *)
(***************************************************************************)
\* one alternative literal1.*literal2... of a pattern found in s (lower-cased)
\* at or after position from: each literal at its leftmost place after the
\* one before it
RECURSIVE MatchPieces(_, _, _)
MatchPieces(pieces, s, from) ==
  IF pieces = <<>> THEN TRUE
  ELSE LET at == Find(Lower(Head(pieces)), s, from)
       IN  at # 0 /\ MatchPieces(Tail(pieces), s, at + Len(Head(pieces)))

\* re.search(pattern, line, re.IGNORECASE)
re_search(pattern, line) ==
  \E a \in DOMAIN pattern : MatchPieces(pattern[a], Lower(line), 1)

\* is_error_line letting through every line a registry pattern matches
is_error_line_or_pattern(line) ==
  \/ \E i \in DOMAIN ERROR_INDICATORS : Contains(ERROR_INDICATORS[i], Lower(line))
  \/ \E p \in DOMAIN ERROR_PATTERNS : re_search(ERROR_PATTERNS[p].pattern, line)

\* is_error_line without "refused" among its indicators
is_error_line_without_refused(line) ==
  \E i \in DOMAIN ERROR_INDICATORS :
    /\ ERROR_INDICATORS[i] # <<"r","e","f","u","s","e","d">>
    /\ Contains(ERROR_INDICATORS[i], Lower(line))

\* any(indicator in line_lower for indicator in [...])
is_error_line(line) ==
  \E i \in DOMAIN ERROR_INDICATORS : Contains(ERROR_INDICATORS[i], Lower(line))

\* MatchPattern with the break lost: the last matching entry wins
MatchPattern_last(line) ==
  LET last(hits) == IF hits = {} THEN 0 ELSE CHOOSE p \in hits : \A q \in hits : q <= p
  IN  last({p \in DOMAIN ERROR_PATTERNS : re_search(ERROR_PATTERNS[p].pattern, line)})

\* the for ... break / else over ERROR_PATTERNS.items(): the index of the
\* entry the loop stops at, 0 when it runs to its else branch
MatchPattern(line) ==
  LET first(hits) == IF hits = {} THEN 0 ELSE CHOOSE p \in hits : \A q \in hits : p <= q
  IN  first({p \in DOMAIN ERROR_PATTERNS : re_search(ERROR_PATTERNS[p].pattern, line)})

MaxLogLine == 200

\* ClassifyLine with the loop over ERROR_PATTERNS skipped
ClassifyLine_no_patterns(line) ==
  IF Strip(line) = <<>> THEN -1
  ELSE IF ~is_error_line(line) THEN -1
  ELSE 0

\* what the loop body decides for one line: -1 no finding (the line is blank
\* or carries no indicator), 0 the generic finding, p > 0 the finding of
\* ERROR_PATTERNS[p]
ClassifyLine(line) ==
  IF Strip(line) = <<>> THEN -1
  ELSE IF ~is_error_line(line) THEN -1
  ELSE MatchPattern(line)

\* ClassifyLine tabulated over the lines the model writes (evaluated once)
Classified == [line \in KnownLines |-> ClassifyLine(line)]

Verdict(line) == IF line \in KnownLines THEN Classified[line] ELSE ClassifyLine(line)

\* LineErrors without the else of the loop over ERROR_PATTERNS: a line that
\* no pattern matches contributes nothing
LineErrors_without_else(line_num, line) ==
  IF Verdict(line) > 0
  THEN << [line_number |-> line_num,
           error_type |-> ERROR_PATTERNS[Verdict(line)].error_name,
           severity |-> ERROR_PATTERNS[Verdict(line)].severity,
           log_line |-> Take(Strip(line), MaxLogLine),
           recommendation |-> ERROR_PATTERNS[Verdict(line)].recommendation] >>
  ELSE <<>>

\* the findings one line contributes: none, or the one dict appended
LineErrors(line_num, line) ==
  LET appended(p, log_line) ==
        IF p = -1 THEN <<>>
        ELSE IF p # 0
        THEN << [line_number |-> line_num,
                 error_type |-> ERROR_PATTERNS[p].error_name,
                 severity |-> ERROR_PATTERNS[p].severity,
                 log_line |-> log_line,
                 recommendation |-> ERROR_PATTERNS[p].recommendation] >>
        ELSE << [line_number |-> line_num,
                 error_type |-> "generic_error",
                 severity |-> "low",
                 log_line |-> log_line,
                 recommendation |-> "Review this error line for more context."] >>
  IN  appended(Verdict(line), Take(Strip(line), MaxLogLine))

\* ErrorsUpTo with enumerate(log_lines) counting from 0
RECURSIVE ErrorsUpTo_from_zero(_, _)
ErrorsUpTo_from_zero(log_lines, n) ==
  IF n = 0 THEN <<>>
  ELSE ErrorsUpTo_from_zero(log_lines, n - 1) \o LineErrors(n - 1, log_lines[n])

\* detected_errors after the lines 1..n of log_lines
RECURSIVE ErrorsUpTo(_, _)
ErrorsUpTo(log_lines, n) ==
  IF n = 0 THEN <<>>
  ELSE ErrorsUpTo(log_lines, n - 1) \o LineErrors(n, log_lines[n])

analyze_log_errors(log_lines) == ErrorsUpTo(log_lines, Len(log_lines))

(***************************************************************************)
(* The container runtime (Docker), as the tools read it                    *)
(***************************************************************************)
ContainerNames == <<"n8n", "postgres", "redis">>

\* a container as created and started: running, nothing wrong, one benign line
NewContainer(name) ==
  [name |-> name,
   status |-> "running",
   image_tags |-> <<name>>,
   image_short_id |-> "sha256:0",
   image_error |-> None,      \* the exception container.image raises, if any
   exit_code |-> 0,           \* attrs["State"]["ExitCode"]
   oom_killed |-> FALSE,      \* attrs["State"]["OOMKilled"]
   restart_count |-> 0,       \* attrs["RestartCount"]
   logs |-> <<LineInfo>>,     \* the text container.logs() returns, by lines
   logs_error |-> None]       \* the exception container.logs() raises, if any

\* a container failing over and over: six critical, six high, four medium
\* and three low lines
NoisyChunk ==
  << LineFatalOom, LineRefused, LineTimeout401, LineGeneric,
     LineFatalOom, LineRefused, LineTimeout401, LineGeneric,
     LineFatalOom, LineRefused, LineTimeout401, LineInterrupt,
     LineFatalOom, LinePort, LineTimeout401,
     LineFatalOom, LineRefused,
     LineFatalOom, LineRefused >>

\* what a container writes to its log in one go
LogChunks ==
  { <<LineFatalOom>>, <<LineRefused>>, <<LineGeneric>>,
    <<LineInterrupt, LineGeneric, LineGeneric, LineInterrupt, LineGeneric>>,
    NoisyChunk }

ExitCodes == {0, 1}

SEVERITIES == <<"low", "medium", "high", "critical">>

\* ["low", "medium", "high", "critical"].index(severity)
SeverityIndex(severity) == (CHOOSE i \in DOMAIN SEVERITIES : SEVERITIES[i] = severity) - 1

\* max(...) of a non-empty sequence of numbers
MaxOf(s) == CHOOSE m \in {s[i] : i \in DOMAIN s} : \A i \in DOMAIN s : s[i] <= m

\* container.image.tags[0] if container.image.tags else container.image.short_id
ImageOf(c) == IF c.image_tags # <<>> THEN c.image_tags[1] ELSE c.image_short_id

\* safe_docker_tool with only its last except clause
safe_docker_tool_unmapped(exception) ==
  [status |-> "error", error_type |-> exception, message |-> exception]

\* the decorator's except clauses: the error object returned for an exception
safe_docker_tool(exception) ==
  [status |-> "error",
   error_type |-> CASE exception = "NotFound" -> "ContainerNotFound"
                    [] exception = "APIError" -> "DockerAPIError"
                    [] exception = "RuntimeError" -> "DockerConnectionError"
                    [] OTHER -> exception,
   message |-> exception]

(***************************************************************************)
(* analyze_all_container_errors                                            *)
(***************************************************************************)
\* MetadataIssues looking for the status "exited" alone
MetadataIssues_exited_only(c) ==
  (IF c.status = "exited"
   THEN << [type |-> "container_not_running",
            severity |-> IF c.exit_code # 0 THEN "high" ELSE "medium",
            message |-> "Container is " \o c.status,
            recommendation |-> "Check container logs and restart if needed."] >>
   ELSE <<>>)
  \o
  (IF c.oom_killed
   THEN << [type |-> "oom_killed",
            severity |-> "critical",
            message |-> "Container was killed due to Out of Memory",
            recommendation |-> "Increase container memory limits in docker-compose.yml"] >>
   ELSE <<>>)

\* the "obvious issues" of one container: not running, OOM killed, restarts
MetadataIssues(c) ==
  (IF c.status # "running"
   THEN << [type |-> "container_not_running",
            severity |-> IF c.exit_code # 0 THEN "high" ELSE "medium",
            message |-> "Container is " \o c.status
                        \o (IF c.exit_code # 0
                            THEN " (exit code: " \o ToString(c.exit_code) \o ")"
                            ELSE ""),
            recommendation |-> "Check container logs and restart if needed."] >>
   ELSE <<>>)
  \o
  (IF c.oom_killed
   THEN << [type |-> "oom_killed",
            severity |-> "critical",
            message |-> "Container was killed due to Out of Memory",
            recommendation |-> "Increase container memory limits in docker-compose.yml"] >>
   ELSE <<>>)
  \o
  (IF c.restart_count > 5
   THEN << [type |-> "restart_loop",
            severity |-> "high",
            message |-> "Container has restarted " \o ToString(c.restart_count) \o " times",
            recommendation |-> "Container may be in a crash loop. Check application errors."] >>
   ELSE <<>>)

MaxLogErrors == 5
MaxMessage == 100

\* UniqueLogIssues without error_types_seen: an issue per error
UniqueLogIssues_every_error(log_errors, n) ==
  [k \in 1..n |-> [type |-> log_errors[k].error_type,
                   severity |-> log_errors[k].severity,
                   message |-> Take(log_errors[k].log_line, 100),
                   recommendation |-> log_errors[k].recommendation]]

\* the loop over log_errors[:5]: the issues of the first n of them, one per
\* error type not seen before
RECURSIVE UniqueLogIssues(_, _)
UniqueLogIssues(log_errors, n) ==
  IF n = 0 THEN <<>>
  ELSE LET before == UniqueLogIssues(log_errors, n - 1)
           error == log_errors[n]
       IN  IF \E i \in DOMAIN before : before[i].type = error.error_type
           THEN before
           ELSE Append(before, [type |-> error.error_type,
                                severity |-> error.severity,
                                message |-> Take(error.log_line, MaxMessage),
                                recommendation |-> error.recommendation])

\* the try block: the issues the log adds; none when container.logs() raises
LogIssues(c) ==
  IF c.status \in {"running", "exited", "restarting"}
  THEN IF c.logs_error # None
       THEN <<>>
       ELSE LET unique(log_errors) == UniqueLogIssues(log_errors, Len(log_errors))
            IN  unique(Take(analyze_log_errors(c.logs), MaxLogErrors))
  ELSE <<>>

ContainerSummary(c) == [name |-> c.name, status |-> c.status, image |-> ImageOf(c)]

ContainerIssues(c) == MetadataIssues(c) \o LogIssues(c)

\* the entry appended to all_issues for a container with issues
IssueEntry(container_summary, issues) ==
  [container |-> container_summary,
   issues |-> issues,
   issue_count |-> Len(issues),
   max_severity |-> MaxOf([i \in DOMAIN issues |-> SeverityIndex(issues[i].severity)])]

\* Listed with the else lost: a container with issues goes to both lists
Listed_in_both(lists, container_summary, issues) ==
  IF issues # <<>>
  THEN [lists EXCEPT !.all_issues = Append(@, IssueEntry(container_summary, issues)),
                     !.healthy_containers = Append(@, container_summary)]
  ELSE [lists EXCEPT !.healthy_containers = Append(@, container_summary)]

\* the end of the loop body: the container goes to all_issues with its
\* entry, or to healthy_containers
Listed(lists, container_summary, issues) ==
  IF issues # <<>>
  THEN [lists EXCEPT !.all_issues = Append(@, IssueEntry(container_summary, issues))]
  ELSE [lists EXCEPT !.healthy_containers = Append(@, container_summary)]

\* ContainerLoop with error_types_seen set once, before the loop: a type
\* listed from the log of an earlier container is not listed again
RECURSIVE ContainerLoop_types_carried(_, _)
ContainerLoop_types_carried(cs, n) ==
  IF n = 0 THEN [all_issues |-> <<>>, healthy_containers |-> <<>>]
  ELSE LET carried(lists) ==
             Listed(lists, ContainerSummary(cs[n]),
                    MetadataIssues(cs[n])
                    \o SelectSeq(LogIssues(cs[n]),
                                 LAMBDA i :
                                   \A k \in DOMAIN lists.all_issues :
                                     \A m \in DOMAIN lists.all_issues[k].issues :
                                       lists.all_issues[k].issues[m].type # i.type))
       IN  carried(ContainerLoop_types_carried(cs, n - 1))

\* all_issues and healthy_containers after the first n containers of the
\* listing
RECURSIVE ContainerLoop(_, _)
ContainerLoop(cs, n) ==
  IF n = 0 THEN [all_issues |-> <<>>, healthy_containers |-> <<>>]
  ELSE Listed(ContainerLoop(cs, n - 1), ContainerSummary(cs[n]), ContainerIssues(cs[n]))

\* entries by issue_count n, n - 1, ..., 0, each group in its order
RECURSIVE ByCountDown(_, _)
ByCountDown(entries, n) ==
  IF n < 0 THEN <<>>
  ELSE SelectSeq(entries, LAMBDA e : e.issue_count = n) \o ByCountDown(entries, n - 1)

\* SortBySeverity with ties broken by issue count, descending
SortBySeverity_count_tiebreak(all_issues) ==
  LET of(k) == SelectSeq(all_issues, LAMBDA e : e.max_severity = k)
      most == MaxOf(<<0>> \o [i \in DOMAIN all_issues |-> all_issues[i].issue_count])
  IN  ByCountDown(of(3), most) \o ByCountDown(of(2), most)
      \o ByCountDown(of(1), most) \o ByCountDown(of(0), most)

\* all_issues left as the loop built it, the sort lost
SortBySeverity_not_sorted(all_issues) == all_issues

\* SortBySeverity without reverse=True
SortBySeverity_ascending(all_issues) ==
  LET of(k) == SelectSeq(all_issues, LAMBDA e : e.max_severity = k)
  IN  of(0) \o of(1) \o of(2) \o of(3)

\* all_issues.sort(key=lambda x: x["max_severity"], reverse=True): a stable
\* sort, entries of equal key keep their order
SortBySeverity(all_issues) ==
  LET of(k) == SelectSeq(all_issues, LAMBDA e : e.max_severity = k)
  IN  of(3) \o of(2) \o of(1) \o of(0)

\* total_issues counting the entries, not their issues
SumIssueCount_of_entries(entries) == Len(entries)

RECURSIVE SumIssueCount(_)
SumIssueCount(entries) ==
  IF entries = <<>> THEN 0 ELSE Head(entries).issue_count + SumIssueCount(Tail(entries))

\* the result the tool builds once the loop has run over every container
ConsolidatedReport(cs, include_healthy) ==
  LET report(all_issues, healthy_containers) ==
        [status |-> "success",
         summary |-> [total_containers |-> Len(cs),
                      containers_with_issues |-> Len(all_issues),
                      healthy_containers |-> Len(healthy_containers),
                      total_issues |-> SumIssueCount(all_issues),
                      critical_containers |->
                        Len(SelectSeq(all_issues, LAMBDA e : e.max_severity >= 3))],
         containers_with_issues |-> all_issues]
         @@ (IF include_healthy
             THEN [healthy_containers |-> healthy_containers]
             ELSE <<>>)
      sorted(lists) == report(SortBySeverity(lists.all_issues), lists.healthy_containers)
  IN  sorted(ContainerLoop(cs, Len(cs)))

\* the first container of the listing whose image cannot be read
FirstImageError(cs) ==
  CHOOSE i \in DOMAIN cs :
    /\ cs[i].image_error # None
    /\ \A j \in 1..(i - 1) : cs[j].image_error = None

\* analyze_all_container_errors without the try around container.logs()
analyze_all_container_errors_no_try(daemon, cs, include_healthy) ==
  IF daemon = "down" THEN safe_docker_tool("RuntimeError")
  ELSE IF daemon = "api_error" THEN safe_docker_tool("APIError")
  ELSE IF \E i \in DOMAIN cs : cs[i].image_error # None
  THEN safe_docker_tool(cs[FirstImageError(cs)].image_error)
  ELSE IF \E i \in DOMAIN cs : /\ cs[i].logs_error # None
                               /\ cs[i].status \in {"running", "exited", "restarting"}
  THEN safe_docker_tool("APIError")
  ELSE ConsolidatedReport(cs, include_healthy)

\* the tool under _safe_docker_tool: an exception that leaves the body
\* (no client, the listing fails, container.image raises in the loop) comes
\* back as the decorator's error object; container.logs() raising is caught
\* in the loop
analyze_all_container_errors(daemon, cs, include_healthy) ==
  IF daemon = "down" THEN safe_docker_tool("RuntimeError")
  ELSE IF daemon = "api_error" THEN safe_docker_tool("APIError")
  ELSE IF \E i \in DOMAIN cs : cs[i].image_error # None
  THEN safe_docker_tool(cs[FirstImageError(cs)].image_error)
  ELSE ConsolidatedReport(cs, include_healthy)

(***************************************************************************)
(* diagnose_container_errors                                               *)
(***************************************************************************)
MaxCritical == 5
MaxHigh == 5
MaxMedium == 3
MaxLow == 2
MaxRawLog == 2000

\* BySeverity taking every finding of that severity or a higher one
BySeverity_or_higher(detected, severity) ==
  SelectSeq(detected, LAMBDA e : SeverityIndex(e.severity) >= SeverityIndex(severity))

\* [e for e in detected_errors if e["severity"] == severity]
BySeverity(detected, severity) == SelectSeq(detected, LAMBDA e : e.severity = severity)

\* the text of a log: its lines joined by "\n"
RECURSIVE JoinLines(_)
JoinLines(log_lines) ==
  IF log_lines = <<>> THEN <<>>
  ELSE IF Len(log_lines) = 1 THEN log_lines[1]
  ELSE log_lines[1] \o <<"\n">> \o JoinLines(Tail(log_lines))

\* logs[-2000:] if len(logs) > 2000 else logs
RawLogSample(text) ==
  IF Len(text) > MaxRawLog THEN SubSeq(text, Len(text) - MaxRawLog + 1, Len(text)) ELSE text

\* PriorityIssue with the findings consulted before the metadata
PriorityIssue_findings_first(c, critical_errors, high_errors) ==
  IF critical_errors # <<>>
  THEN critical_errors[1].recommendation
  ELSE IF high_errors # <<>>
  THEN high_errors[1].recommendation
  ELSE IF c.oom_killed
  THEN "Container was killed due to Out of Memory. Consider increasing memory limits."
  ELSE IF c.exit_code # 0
  THEN "Container exited with error code " \o ToString(c.exit_code) \o "."
  ELSE IF c.status # "running"
  THEN "Container is not running (status: " \o c.status \o ")."
  ELSE None

\* the if / elif chain that sets priority_issue
PriorityIssue(c, critical_errors, high_errors) ==
  IF c.oom_killed
  THEN "Container was killed due to Out of Memory. Consider increasing memory limits."
  ELSE IF c.exit_code # 0
  THEN "Container exited with error code " \o ToString(c.exit_code) \o "."
  ELSE IF critical_errors # <<>>
  THEN critical_errors[1].recommendation
  ELSE IF high_errors # <<>>
  THEN high_errors[1].recommendation
  ELSE IF c.status # "running"
  THEN "Container is not running (status: " \o c.status \o ")."
  ELSE None

\* the body of the tool, decorated with _safe_docker_tool
diagnose_container_errors(daemon, c) ==
  IF daemon = "down" THEN safe_docker_tool("RuntimeError")
  ELSE IF daemon = "api_error" THEN safe_docker_tool("APIError")
  ELSE IF c.image_error # None THEN safe_docker_tool(c.image_error)
  ELSE IF c.logs_error # None THEN safe_docker_tool(c.logs_error)
  ELSE LET detected == analyze_log_errors(c.logs)
           critical_errors == BySeverity(detected, "critical")
           high_errors == BySeverity(detected, "high")
           medium_errors == BySeverity(detected, "medium")
           low_errors == BySeverity(detected, "low")
       IN  [status |-> "success",
            container |-> [name |-> c.name,
                           status |-> c.status,
                           image |-> ImageOf(c),
                           restart_count |-> c.restart_count,
                           exit_code |-> c.exit_code,
                           oom_killed |-> c.oom_killed],
            analysis |-> [total_errors_found |-> Len(detected),
                          critical |-> Len(critical_errors),
                          high |-> Len(high_errors),
                          medium |-> Len(medium_errors),
                          low |-> Len(low_errors)],
            priority_issue |-> PriorityIssue(c, critical_errors, high_errors),
            errors |-> [critical |-> Take(critical_errors, MaxCritical),
                        high |-> Take(high_errors, MaxHigh),
                        medium |-> Take(medium_errors, MaxMedium),
                        low |-> Take(low_errors, MaxLow)],
            raw_log_sample |-> RawLogSample(JoinLines(c.logs))]

(***************************************************************************)
(* Execution traces (app/services/debugger.py)                             *)
(*                                                                         *)
(* A dict is a function on its keys; runData, whose order matters, is the  *)
(* sequence of its (node name, runs) items.  Texts are character           *)
(* sequences as above, and NoneText is Python's None where a text may      *)
(* stand.                                                                  *)
(***************************************************************************)
NoneText == <<"None">>

EmptyDict == <<>>

\* d.get(key, default)
Get(d, key, default) == IF key \in DOMAIN d THEN d[key] ELSE default

\* "Unknown"
StrUnknown ==
  <<"U","n","k","n","o","w","n">>

\* "No error details available"
StrNoDetails ==
  <<"N","o"," ","e","r","r","o","r"," ","d","e","t","a","i","l","s"," ","a","v","a","i","l","a","b","l","e">>

\* "No message"
StrNoMessage ==
  <<"N","o"," ","m","e","s","s","a","g","e">>

\* "Error"
StrError ==
  <<"E","r","r","o","r">>

\* "404 Not Found"
Msg404 ==
  <<"4","0","4"," ","N","o","t"," ","F","o","u","n","d">>

\* "Request timeout"
MsgTimeout ==
  <<"R","e","q","u","e","s","t"," ","t","i","m","e","o","u","t">>

\* "ECONNRESET"
MsgReset ==
  <<"E","C","O","N","N","R","E","S","E","T">>

\* "Workflow failed"
MsgWorkflow ==
  <<"W","o","r","k","f","l","o","w"," ","f","a","i","l","e","d">>

\* "NodeApiError"
NameApiError ==
  <<"N","o","d","e","A","p","i","E","r","r","o","r">>

\* "NodeOperationError"
NameOperationError ==
  <<"N","o","d","e","O","p","e","r","a","t","i","o","n","E","r","r","o","r">>

\* "at HttpRequest.execute"
StackA ==
  <<"a","t"," ","H","t","t","p","R","e","q","u","e","s","t",".","e","x","e","c","u","t","e">>

\* "message"
KeyMessage ==
  <<"m","e","s","s","a","g","e">>

\* "name"
KeyName ==
  <<"n","a","m","e">>

\* "stack"
KeyStack ==
  <<"s","t","a","c","k">>

\* an error that is a dict, and one that is a string
PyDict(d) == [type |-> "dict", value |-> d]
PyStr(s) == [type |-> "str", value |-> s]

\* str() of an error: a string is itself, a dict of texts is its repr, the
\* keys in the order message, name, stack
ReprItem(d, key, text) ==
  IF key \in DOMAIN d THEN << <<"'">> \o text \o <<"'", ":", " ", "'">> \o d[key] \o <<"'">> >>
  ELSE <<>>

RECURSIVE JoinItems(_)
JoinItems(items) ==
  IF items = <<>> THEN <<>>
  ELSE IF Len(items) = 1 THEN items[1]
  ELSE items[1] \o <<",", " ">> \o JoinItems(Tail(items))

Str(error) ==
  IF error.type = "str" THEN error.value
  ELSE <<"{">>
       \o JoinItems(ReprItem(error.value, "message", KeyMessage)
                    \o ReprItem(error.value, "name", KeyName)
                    \o ReprItem(error.value, "stack", KeyStack))
       \o <<"}">>

\* error_info as _extract_error_details first sets it
DefaultErrorInfo ==
  [failed_node |-> "Unknown",
   node_type |-> "Unknown",
   error_type |-> StrUnknown,
   error_message |-> StrNoDetails,
   stack_trace |-> NoneText,
   input_data |-> NoneText]

\* the block under if "error" in result_data
TopLevelError(error_info, top_error) ==
  [error_info EXCEPT
     !.failed_node = Get(Get(top_error, "node", EmptyDict), "name", "Unknown Node"),
     !.node_type = Get(Get(top_error, "node", EmptyDict), "type", "Unknown"),
     !.error_message = Get(top_error, "message", StrNoMessage),
     !.stack_trace = Get(top_error, "stack", NoneText),
     !.error_type = IF "description" \in DOMAIN top_error
                    THEN top_error["description"] ELSE @]

\* RunError giving way to the top-level error: error_info is left as it is
\* once failed_node has been set
RunError_after_top_level(error_info, node_name, run) ==
  IF error_info.failed_node # "Unknown" THEN error_info
  ELSE [error_info EXCEPT
          !.failed_node = node_name,
          !.error_message = IF run["error"].type = "dict"
                            THEN Get(run["error"].value, "message", Str(run["error"]))
                            ELSE Str(run["error"])]

\* the block under if "error" in run
RunError(error_info, node_name, run) ==
  LET node_error == run["error"]
  IN  [error_info EXCEPT
         !.failed_node = node_name,
         !.error_message = IF node_error.type = "dict"
                           THEN Get(node_error.value, "message", Str(node_error))
                           ELSE Str(node_error),
         !.error_type = IF node_error.type = "dict"
                        THEN Get(node_error.value, "name", StrError) ELSE @,
         !.stack_trace = IF node_error.type = "dict"
                         THEN Get(node_error.value, "stack", NoneText) ELSE @,
         !.input_data = IF "inputData" \in DOMAIN run THEN run["inputData"]
                        ELSE IF "source" \in DOMAIN run THEN run["source"]
                        ELSE @]

\* NodeRuns without the break: the last run with an error is the one kept
NodeRuns_last_run(error_info, node_name, node_runs) ==
  LET failed == {r \in DOMAIN node_runs : "error" \in DOMAIN node_runs[r]}
  IN  IF failed = {} THEN error_info
      ELSE RunError(error_info, node_name,
                    node_runs[CHOOSE r \in failed : \A q \in failed : q <= r])

\* the inner loop over one node's runs: it stops at the first run with an error
NodeRuns(error_info, node_name, node_runs) ==
  LET failed == {r \in DOMAIN node_runs : "error" \in DOMAIN node_runs[r]}
  IN  IF failed = {} THEN error_info
      ELSE RunError(error_info, node_name,
                    node_runs[CHOOSE r \in failed : \A q \in failed : r <= q])

\* the outer loop over run_data.items(), after its first n items; the break
\* leaves the inner loop only, so every item is visited
RECURSIVE RunData(_, _, _)
RunData(error_info, run_data, n) ==
  IF n = 0 THEN error_info
  ELSE NodeRuns(RunData(error_info, run_data, n - 1), run_data[n][1], run_data[n][2])

\* JSON null where a dict may stand, and where a list (or runData, kept as
\* the sequence of its items) may stand
NoneDict == [None |-> None]
NoneList == (0 :> None)

IsNoneDict(d) == None \in DOMAIN d
IsNoneList(l) == 0 \in DOMAIN l

\* the inner loop meeting a run that is None ("error" in None) before the
\* run it breaks at
RunsRaise(node_runs) ==
  \E r \in DOMAIN node_runs :
    /\ IsNoneDict(node_runs[r])
    /\ \A q \in 1..(r - 1) : "error" \notin DOMAIN node_runs[q]

\* the exception the loops over run_data leave with, None when they end
RunDataRaises(run_data) ==
  IF IsNoneList(run_data) THEN "AttributeError"
  ELSE IF \E n \in DOMAIN run_data :
            IsNoneList(run_data[n][2]) \/ RunsRaise(run_data[n][2])
  THEN "TypeError"
  ELSE None

\* the exception the block under if "error" in result_data leaves with
TopLevelRaises(result_data) ==
  IF "error" \notin DOMAIN result_data THEN None
  ELSE IF IsNoneDict(result_data["error"]) THEN "AttributeError"
  ELSE IF IsNoneDict(Get(result_data["error"], "node", EmptyDict)) THEN "AttributeError"
  ELSE None

\* the exception _extract_error_details leaves with, None when it returns:
\* None.get(...), "error" in None, None.items(), enumerate(None)
Raises(execution_data) ==
  IF "data" \notin DOMAIN execution_data THEN None
  ELSE IF IsNoneDict(execution_data["data"]) THEN "AttributeError"
  ELSE IF IsNoneDict(Get(execution_data["data"], "resultData", EmptyDict)) THEN "TypeError"
  ELSE LET raised(result_data) ==
             IF TopLevelRaises(result_data) # None THEN TopLevelRaises(result_data)
             ELSE RunDataRaises(Get(result_data, "runData", <<>>))
       IN  raised(Get(execution_data["data"], "resultData", EmptyDict))

extract_error_details(execution_data) ==
  IF "data" \notin DOMAIN execution_data THEN DefaultErrorInfo
  ELSE LET result_data == Get(execution_data["data"], "resultData", EmptyDict)
           error_info == IF "error" \in DOMAIN result_data
                         THEN TopLevelError(DefaultErrorInfo, result_data["error"])
                         ELSE DefaultErrorInfo
           run_data == Get(result_data, "runData", <<>>)
       IN  RunData(error_info, run_data, Len(run_data))

\* "404"
Str404 ==
  <<"4","0","4">>

\* "not found"
StrNotFound ==
  <<"n","o","t"," ","f","o","u","n","d">>

\* "401"
Str401 ==
  <<"4","0","1">>

\* "unauthorized"
StrUnauthorized ==
  <<"u","n","a","u","t","h","o","r","i","z","e","d">>

\* "timeout"
StrTimeout ==
  <<"t","i","m","e","o","u","t">>

\* "json"
StrJson ==
  <<"j","s","o","n">>

\* "parse"
StrParse ==
  <<"p","a","r","s","e">>

\* "undefined"
StrUndefined ==
  <<"u","n","d","e","f","i","n","e","d">>

\* "property"
StrProperty ==
  <<"p","r","o","p","e","r","t","y">>

\* generate_recommendation with the rule of '401' tried before the rule of
\* '404'
generate_recommendation_401_first(error_info) ==
  LET message == Lower(error_info.error_message)
      node == error_info.failed_node
  IN  IF Contains(Str401, message) \/ Contains(StrUnauthorized, message)
      THEN "Authentication failed in node '" \o node
           \o "'. Verify API credentials or tokens."
      ELSE IF Contains(Str404, message) \/ Contains(StrNotFound, message)
      THEN "The endpoint or resource in node '" \o node
           \o "' returned 404. Check the URL path or resource ID."
      ELSE IF Contains(StrTimeout, message)
      THEN "Node '" \o node
           \o "' timed out. Consider increasing timeout or checking endpoint availability."
      ELSE IF Contains(StrJson, message) \/ Contains(StrParse, message)
      THEN "Node '" \o node
           \o "' received invalid JSON. Check the data format from the previous node."
      ELSE IF Contains(StrUndefined, message) \/ Contains(StrProperty, message)
      THEN "Node '" \o node
           \o "' tried to access a missing property. Check input data structure."
      ELSE "Review the error in node '" \o node
           \o "' and verify its configuration and input data."

generate_recommendation(error_info) ==
  LET message == Lower(error_info.error_message)
      node == error_info.failed_node
  IN  IF Contains(Str404, message) \/ Contains(StrNotFound, message)
      THEN "The endpoint or resource in node '" \o node
           \o "' returned 404. Check the URL path or resource ID."
      ELSE IF Contains(Str401, message) \/ Contains(StrUnauthorized, message)
      THEN "Authentication failed in node '" \o node
           \o "'. Verify API credentials or tokens."
      ELSE IF Contains(StrTimeout, message)
      THEN "Node '" \o node
           \o "' timed out. Consider increasing timeout or checking endpoint availability."
      ELSE IF Contains(StrJson, message) \/ Contains(StrParse, message)
      THEN "Node '" \o node
           \o "' received invalid JSON. Check the data format from the previous node."
      ELSE IF Contains(StrUndefined, message) \/ Contains(StrProperty, message)
      THEN "Node '" \o node
           \o "' tried to access a missing property. Check input data structure."
      ELSE "Review the error in node '" \o node
           \o "' and verify its configuration and input data."

\* safe_tool's except clauses: the error object returned for an exception
safe_tool(exception) ==
  CASE exception = "N8NClientError" ->
         [status |-> "error", code |-> 503,
          message |-> "Network/Connection Failure", context |-> "RequestError"]
    [] exception = "ValueError" ->
         [status |-> "error", code |-> 400, message |-> "Validation Error: "]
    [] OTHER ->
         [status |-> "fatal_error", code |-> 500,
          message |-> "Internal MCP Error: " \o exception]

\* the tool under safe_tool: the GET failing, or _extract_error_details
\* raising, comes back as the decorator's error object
diagnose_execution(api, execution_id, execution) ==
  IF api # "up" THEN safe_tool("N8NClientError")
  ELSE IF Raises(execution) # None THEN safe_tool(Raises(execution))
  ELSE LET diagnosed(error_details) ==
             [execution_id |-> execution_id,
              workflow |-> [workflow_id |-> Get(execution, "workflowId", None),
                            workflow_name |->
                              Get(Get(execution, "workflowData", EmptyDict), "name", "Unknown"),
                            started_at |-> Get(execution, "startedAt", None),
                            finished_at |-> Get(execution, "stoppedAt", None),
                            status |-> Get(execution, "status", None),
                            mode |-> Get(execution, "mode", None)],
              diagnosis |-> error_details,
              recommendation |-> generate_recommendation(error_details)]
       IN  diagnosed(extract_error_details(execution))

\* one entry of analyses
ExecutionAnalysis(exc) ==
  LET error_details == extract_error_details(exc)
  IN  [execution_id |-> exc["id"],
       workflow_id |-> Get(exc, "workflowId", None),
       workflow_name |-> Get(Get(exc, "workflowData", EmptyDict), "name", None),
       started_at |-> Get(exc, "startedAt", None),
       failed_node |-> error_details.failed_node,
       error_type |-> error_details.error_type,
       error_message |-> error_details.error_message,
       recommendation |-> generate_recommendation(error_details)]

\* the exception the loop body leaves with for one execution, None when it
\* appends the analysis
AnalysisRaises(exc) ==
  IF Raises(exc) # None THEN Raises(exc)
  ELSE IF "id" \notin DOMAIN exc THEN "KeyError"
  ELSE None

\* the tool under safe_tool: the GET failing, or _extract_error_details or
\* exc["id"] raising in the loop, comes back as the decorator's error object
analyze_execution_failures(api, execs) ==
  IF api # "up"
  THEN [json |-> "object", value |-> safe_tool("N8NClientError")]
  ELSE IF \E k \in DOMAIN execs : AnalysisRaises(execs[k]) # None
  THEN LET k == CHOOSE k \in DOMAIN execs :
                  /\ AnalysisRaises(execs[k]) # None
                  /\ \A j \in 1..(k - 1) : AnalysisRaises(execs[j]) = None
       IN  [json |-> "object", value |-> safe_tool(AnalysisRaises(execs[k]))]
  ELSE [json |-> "array", value |-> [k \in DOMAIN execs |-> ExecutionAnalysis(execs[k])]]

(***************************************************************************)
(* State                                                                   *)
(***************************************************************************)
VARIABLES
  logs,        \* the text under classification, by lines
  runtime,     \* the Docker daemon: "up", "down" or "api_error"
  containers,  \* client.containers.list(all=True), in listing order
  engine,      \* the n8n API: "up" or "unreachable"
  executions,  \* the failed executions GET /executions returns, with their data
  events,      \* how many things have happened to the collaborators
  result,      \* the call made and what it returned; tool is None before
  calls        \* the calls that have returned to the caller, in order

vars == <<logs, runtime, containers, engine, executions, events, result, calls>>

NoCall == [tool |-> None]

MaxLines == 2
MaxEvents == 3
MaxTraceEvents == 3

\* the Docker runtime with every container as started
DockerIdle ==
  /\ runtime = "up"
  /\ containers = [i \in DOMAIN ContainerNames |-> NewContainer(ContainerNames[i])]

\* the workflow engine with no failed execution
EngineIdle ==
  /\ engine = "up"
  /\ executions = <<>>

(***************************************************************************)
(* The classifier on its own                                               *)
(***************************************************************************)
InitLog ==
  /\ logs \in {<<l>> : l \in LogVocabulary}
  /\ events = 0
  /\ result = NoCall
  /\ calls = <<>>
  /\ DockerIdle
  /\ EngineIdle

\* one more line of text
WriteLog(line) ==
  /\ result.tool = None
  /\ Len(logs) < MaxLines
  /\ logs' = Append(logs, line)
  /\ UNCHANGED <<runtime, containers, engine, executions, events, result, calls>>

\* AnalyzeLog with a set of error types seen that outlives the call: a type
\* an earlier call returned is not returned again
AnalyzeLog_types_seen ==
  /\ result.tool = None
  /\ result' = [tool |-> "_analyze_log_errors",
                returned |->
                  SelectSeq(analyze_log_errors(logs),
                            LAMBDA e :
                              \A k \in DOMAIN calls :
                                calls[k].tool = "_analyze_log_errors" =>
                                  \A m \in DOMAIN calls[k].returned :
                                    calls[k].returned[m].error_type # e.error_type)]
  /\ UNCHANGED <<logs, runtime, containers, engine, executions, events, calls>>

AnalyzeLog ==
  /\ result.tool = None
  /\ result' = [tool |-> "_analyze_log_errors", returned |-> analyze_log_errors(logs)]
  /\ UNCHANGED <<logs, runtime, containers, engine, executions, events, calls>>

NextLog ==
  \/ \E line \in LogVocabulary : WriteLog(line)
  \/ AnalyzeLog

SpecLog == InitLog /\ [][NextLog]_vars

(***************************************************************************)
(* The Docker tools against a runtime that drifts from its nominal state   *)
(***************************************************************************)
Init ==
  /\ logs = <<LineEmpty>>
  /\ events = 0
  /\ result = NoCall
  /\ calls = <<>>
  /\ DockerIdle
  /\ EngineIdle

Happens ==
  /\ result.tool = None
  /\ events < MaxEvents
  /\ events' = events + 1
  /\ UNCHANGED <<logs, engine, executions, result, calls>>

\* a running container writes to its log
EmitLog(i, chunk) ==
  /\ Happens
  /\ containers[i].status = "running"
  /\ containers' = [containers EXCEPT ![i].logs = @ \o chunk]
  /\ UNCHANGED runtime

\* a running container's process ends
Exit(i, code) ==
  /\ Happens
  /\ containers[i].status = "running"
  /\ containers' = [containers EXCEPT ![i].status = "exited", ![i].exit_code = code]
  /\ UNCHANGED runtime

\* the kernel kills a running container's process for its memory use
OomKill(i) ==
  /\ Happens
  /\ containers[i].status = "running"
  /\ containers' = [containers EXCEPT ![i].status = "exited", ![i].exit_code = 137,
                                      ![i].oom_killed = TRUE]
  /\ UNCHANGED runtime

\* a running container is paused
Pause(i) ==
  /\ Happens
  /\ containers[i].status = "running"
  /\ containers' = [containers EXCEPT ![i].status = "paused"]
  /\ UNCHANGED runtime

\* the restart policy has restarted a container n times
RestartLoop(i, n) ==
  /\ Happens
  /\ containers[i].restart_count = 0
  /\ containers[i].status = "running"
  /\ containers' = [containers EXCEPT ![i].restart_count = n]
  /\ UNCHANGED runtime

\* a container's log can no longer be read
LogsUnreadable(i) ==
  /\ Happens
  /\ containers[i].logs_error = None
  /\ containers' = [containers EXCEPT ![i].logs_error = "APIError"]
  /\ UNCHANGED runtime

\* reading a container's log takes longer than the client waits: the read
\* ends with the client's timeout exception
LogsTimeOut(i) ==
  /\ Happens
  /\ containers[i].logs_error = None
  /\ containers' = [containers EXCEPT ![i].logs_error = "ReadTimeout"]
  /\ UNCHANGED runtime

\* a container's image is removed under it
ImageRemoved(i) ==
  /\ Happens
  /\ containers[i].image_error = None
  /\ containers' = [containers EXCEPT ![i].image_error = "NotFound"]
  /\ UNCHANGED runtime

\* the daemon stops, or starts failing its API calls
DaemonFails(how) ==
  /\ Happens
  /\ runtime = "up"
  /\ runtime' = how
  /\ UNCHANGED containers

AnalyzeAll(include_healthy) ==
  /\ result.tool = None
  /\ result' = [tool |-> "analyze_all_container_errors",
                returned |-> analyze_all_container_errors(runtime, containers, include_healthy)]
  /\ UNCHANGED <<logs, runtime, containers, engine, executions, events, calls>>

Diagnose(i) ==
  /\ result.tool = None
  /\ result' = [tool |-> "diagnose_container_errors",
                container_name |-> containers[i].name,
                returned |-> diagnose_container_errors(runtime, containers[i])]
  /\ UNCHANGED <<logs, runtime, containers, engine, executions, events, calls>>

Next ==
  \/ \E i \in DOMAIN ContainerNames, chunk \in LogChunks : EmitLog(i, chunk)
  \/ \E i \in DOMAIN ContainerNames, code \in ExitCodes : Exit(i, code)
  \/ \E i \in DOMAIN ContainerNames : OomKill(i)
  \/ \E i \in DOMAIN ContainerNames : Pause(i)
  \/ \E i \in DOMAIN ContainerNames, n \in {5, 6} : RestartLoop(i, n)
  \/ \E i \in DOMAIN ContainerNames : LogsUnreadable(i)
  \/ \E i \in DOMAIN ContainerNames : LogsTimeOut(i)
  \/ \E i \in DOMAIN ContainerNames : ImageRemoved(i)
  \/ \E how \in {"down", "api_error"} : DaemonFails(how)
  \/ \E include_healthy \in BOOLEAN : AnalyzeAll(include_healthy)
  \/ \E i \in DOMAIN ContainerNames : Diagnose(i)

Spec == Init /\ [][Next]_vars

(***************************************************************************)
(* The sweep alone, against a runtime that answers every call              *)
(***************************************************************************)
NextSweep ==
  \/ \E i \in DOMAIN ContainerNames, chunk \in LogChunks : EmitLog(i, chunk)
  \/ \E i \in DOMAIN ContainerNames, code \in ExitCodes : Exit(i, code)
  \/ \E i \in DOMAIN ContainerNames : OomKill(i)
  \/ \E i \in DOMAIN ContainerNames : Pause(i)
  \/ \E i \in DOMAIN ContainerNames, n \in {5, 6} : RestartLoop(i, n)
  \/ \E include_healthy \in BOOLEAN : AnalyzeAll(include_healthy)

SpecSweep == Init /\ [][NextSweep]_vars

(***************************************************************************)
(* The sweep over containers that log the same errors, and stop            *)
(***************************************************************************)
SubjectChunks == { <<LineFatalOom>>, <<LineRefused, LineFatalOom>> }

NextSubjects ==
  \/ \E i \in DOMAIN ContainerNames, chunk \in SubjectChunks : EmitLog(i, chunk)
  \/ \E i \in DOMAIN ContainerNames, code \in ExitCodes : Exit(i, code)
  \/ \E include_healthy \in BOOLEAN : AnalyzeAll(include_healthy)

SpecSubjects == Init /\ [][NextSubjects]_vars

(***************************************************************************)
(* The trace tools against executions the workflow engine records          *)
(***************************************************************************)
NodeNames == {"Webhook", "HTTP Request", "Set"}

\* the run records a node leaves: one that succeeded, and failed ones
Runs ==
  { [data |-> <<"items">>],
    [error |-> PyDict([message |-> Msg404, name |-> NameApiError, stack |-> StackA]),
     inputData |-> <<"input">>],
    [error |-> PyDict([message |-> MsgTimeout]), source |-> <<"previous">>],
    [error |-> PyDict([name |-> NameOperationError])],
    [error |-> PyStr(MsgReset)] }

\* the top-level error objects an execution ends with
TopErrors ==
  { [message |-> MsgWorkflow,
     node |-> [name |-> "Set", type |-> "n8n-nodes-base.set"],
     stack |-> StackA,
     description |-> NameOperationError],
    [message |-> MsgWorkflow] }

\* an execution as the engine starts recording it
NewExecution(k, with_id) ==
  LET exc == [workflowId |-> "wf1",
              workflowData |-> [name |-> "Sync"],
              startedAt |-> "2024-01-01T00:00:00Z",
              data |-> [resultData |-> [runData |-> <<>>]]]
  IN  IF with_id THEN ("id" :> ToString(100 + k)) @@ exc ELSE exc

InitTrace ==
  /\ logs = <<LineEmpty>>
  /\ events = 0
  /\ result = NoCall
  /\ calls = <<>>
  /\ DockerIdle
  /\ EngineIdle

Records ==
  /\ result.tool = None
  /\ engine = "up"
  /\ events < MaxTraceEvents
  /\ events' = events + 1
  /\ UNCHANGED <<logs, runtime, containers, result, calls>>

\* the latest execution has its trace whole: the engine still writes to it
Recording ==
  /\ executions # <<>>
  /\ LET exc == executions[Len(executions)]
     IN  /\ Raises(exc) = None
         /\ "data" \in DOMAIN exc
         /\ "resultData" \in DOMAIN exc["data"]
         /\ "runData" \in DOMAIN exc["data"]["resultData"]

\* the engine starts an execution that will fail
StartExecution(with_id) ==
  /\ Records
  /\ executions' = Append(executions, NewExecution(Len(executions) + 1, with_id))
  /\ UNCHANGED engine

\* a node of the latest execution runs: its run record goes under its name,
\* a new name after the ones there
RunNode(node, run) ==
  /\ Records
  /\ Recording
  /\ LET k == Len(executions)
         run_data == executions[k]["data"]["resultData"]["runData"]
         at == {n \in DOMAIN run_data : run_data[n][1] = node}
     IN  executions' =
           [executions EXCEPT ![k]["data"]["resultData"]["runData"] =
              IF at = {} THEN Append(run_data, <<node, <<run>> >>)
              ELSE [run_data EXCEPT ![CHOOSE n \in at : TRUE][2] = Append(@, run)]]
  /\ UNCHANGED engine

\* the latest execution ends with a top-level error
FailExecution(top_error) ==
  /\ Records
  /\ Recording
  /\ "error" \notin DOMAIN executions[Len(executions)]["data"]["resultData"]
  /\ executions' =
       [executions EXCEPT ![Len(executions)]["data"]["resultData"] =
          ("error" :> top_error) @@ @]
  /\ UNCHANGED engine

\* the fields of a trace the engine may leave out or store as null
TraceFields == {"data", "resultData", "error", "node", "runData", "runs", "run"}

\* exc with the field left out (missing; "runs": no attempt under the last
\* step) or null
Damaged(exc, field, missing) ==
  LET result_data == exc["data"]["resultData"]
      run_data == result_data["runData"]
      without(d, key) == [x \in DOMAIN d \ {key} |-> d[x]]
  IN  CASE field = "data" ->
             IF missing THEN without(exc, "data") ELSE [exc EXCEPT !["data"] = NoneDict]
        [] field = "resultData" ->
             IF missing THEN [exc EXCEPT !["data"] = without(@, "resultData")]
             ELSE [exc EXCEPT !["data"]["resultData"] = NoneDict]
        [] field = "error" ->
             IF missing THEN [exc EXCEPT !["data"]["resultData"] = without(@, "error")]
             ELSE [exc EXCEPT !["data"]["resultData"] = ("error" :> NoneDict) @@ @]
        [] field = "node" ->
             IF missing
             THEN [exc EXCEPT !["data"]["resultData"]["error"] = without(@, "node")]
             ELSE [exc EXCEPT !["data"]["resultData"]["error"] = ("node" :> NoneDict) @@ @]
        [] field = "runData" ->
             IF missing THEN [exc EXCEPT !["data"]["resultData"] = without(@, "runData")]
             ELSE [exc EXCEPT !["data"]["resultData"]["runData"] = NoneList]
        [] field = "runs" ->
             [exc EXCEPT !["data"]["resultData"]["runData"][Len(run_data)][2] =
                IF missing THEN <<>> ELSE NoneList]
        [] field = "run" ->
             [exc EXCEPT !["data"]["resultData"]["runData"][Len(run_data)][2] =
                IF missing THEN SubSeq(@, 1, Len(@) - 1)
                ELSE [@ EXCEPT ![Len(@)] = NoneDict]]

\* the engine stores the latest execution with a field of its trace left out
\* or null
Damage(field, missing) ==
  /\ Records
  /\ Recording
  /\ LET result_data == executions[Len(executions)]["data"]["resultData"]
     IN  /\ field = "node" => "error" \in DOMAIN result_data
         /\ field \in {"runs", "run"} => result_data["runData"] # <<>>
  /\ executions' = [executions EXCEPT ![Len(executions)] = Damaged(@, field, missing)]
  /\ UNCHANGED engine

\* the n8n API stops answering
EngineFails ==
  /\ Records
  /\ engine' = "unreachable"
  /\ UNCHANGED executions

ExtractErrorDetails(k) ==
  /\ result.tool = None
  /\ result' = [tool |-> "_extract_error_details",
                execution |-> k,
                returned |-> IF Raises(executions[k]) # None
                             THEN [raised |-> Raises(executions[k])]
                             ELSE extract_error_details(executions[k])]
  /\ UNCHANGED <<logs, runtime, containers, engine, executions, events, calls>>

\* diagnose_execution for an execution the engine has stored under its id
DiagnoseExecution(k) ==
  /\ result.tool = None
  /\ "id" \in DOMAIN executions[k]
  /\ result' = [tool |-> "diagnose_execution",
                execution |-> k,
                returned |-> diagnose_execution(engine, executions[k]["id"], executions[k])]
  /\ UNCHANGED <<logs, runtime, containers, engine, executions, events, calls>>

AnalyzeExecutionFailures ==
  /\ result.tool = None
  /\ result' = [tool |-> "analyze_execution_failures",
                returned |-> analyze_execution_failures(engine, executions)]
  /\ UNCHANGED <<logs, runtime, containers, engine, executions, events, calls>>

NextTrace ==
  \/ \E with_id \in BOOLEAN : StartExecution(with_id)
  \/ \E node \in NodeNames, run \in Runs : RunNode(node, run)
  \/ \E top_error \in TopErrors : FailExecution(top_error)
  \/ \E field \in TraceFields, missing \in BOOLEAN : Damage(field, missing)
  \/ EngineFails
  \/ \E k \in DOMAIN executions : ExtractErrorDetails(k)
  \/ \E k \in DOMAIN executions : DiagnoseExecution(k)
  \/ AnalyzeExecutionFailures

SpecTrace == InitTrace /\ [][NextTrace]_vars

(***************************************************************************)
(* Calls one after the other: the caller classifies texts, diagnoses       *)
(* containers and sweeps, in any order, while the containers log           *)
(***************************************************************************)
\* the texts the caller has to classify
CallTexts ==
  { <<LineRefused, LineGeneric>>, <<LineFatalOom>>, <<LineInfo, LineRefusedOom>> }

\* the caller takes up another text
NewText(text) ==
  /\ result.tool = None
  /\ logs # text
  /\ logs' = text
  /\ UNCHANGED <<runtime, containers, engine, executions, events, result, calls>>

\* the call returns: the caller keeps what a classification gave it, and of
\* the other tools that they ran
Return ==
  /\ result.tool # None
  /\ events < MaxEvents
  /\ events' = events + 1
  /\ calls' = Append(calls, IF result.tool = "_analyze_log_errors"
                            THEN [tool |-> result.tool, text |-> logs,
                                  returned |-> result.returned]
                            ELSE [tool |-> result.tool])
  /\ result' = NoCall
  /\ UNCHANGED <<logs, runtime, containers, engine, executions>>

NextCalls ==
  \/ \E text \in CallTexts : NewText(text)
  \/ AnalyzeLog
  \/ \E i \in DOMAIN ContainerNames, chunk \in LogChunks : EmitLog(i, chunk)
  \/ \E include_healthy \in BOOLEAN : AnalyzeAll(include_healthy)
  \/ \E i \in DOMAIN ContainerNames : Diagnose(i)
  \/ Return

SpecCalls == Init /\ [][NextCalls]_vars

(***************************************************************************)
(* diagnose_execution on executions that failed in one step, with one      *)
(* error message                                                           *)
(***************************************************************************)
\* what the error messages are made of
MessageWords ==
  { <<"4","0","4">>,
    <<"N","o","t"," ","F","o","u","n","d">>,
    <<"4","0","1">>,
    <<"U","n","a","u","t","h","o","r","i","z","e","d">>,
    <<"T","i","m","e","o","u","t">>,
    <<"J","S","O","N">>,
    <<"p","a","r","s","e">>,
    <<"u","n","d","e","f","i","n","e","d">>,
    <<"p","r","o","p","e","r","t","y">>,
    <<"E","C","O","N","N","R","E","S","E","T">> }

MaxWords == 2

\* the messages of up to n words, a space between two words
RECURSIVE Messages(_)
Messages(n) ==
  IF n = 1 THEN MessageWords
  ELSE Messages(n - 1)
       \cup {m \o <<" ">> \o w : m \in Messages(n - 1), w \in MessageWords}

\* the execution in which that node failed with that message
FailedExecution(node, message) ==
  [NewExecution(1, TRUE) EXCEPT
     !["data"]["resultData"]["runData"] =
        << <<node, <<[error |-> PyDict([message |-> message])]>> >> >>]

InitRecommend ==
  /\ logs = <<LineEmpty>>
  /\ events = 0
  /\ result = NoCall
  /\ calls = <<>>
  /\ DockerIdle
  /\ engine = "up"
  /\ executions \in {<<FailedExecution(node, message)>> :
                       node \in NodeNames, message \in Messages(MaxWords)}

NextRecommend == \E k \in DOMAIN executions : DiagnoseExecution(k)

SpecRecommend == InitRecommend /\ [][NextRecommend]_vars

(***************************************************************************)
(* Properties                                                              *)
(***************************************************************************)
LogAnalysed == result.tool = "_analyze_log_errors"

SweepReturned == result.tool = "analyze_all_container_errors"

\* the sweep came back with its report
SweepReport == SweepReturned /\ result.returned.status = "success"

\* diagnose_container_errors came back with its report
DiagnoseReport ==
  result.tool = "diagnose_container_errors" /\ result.returned.status = "success"

\* the container diagnose_container_errors was called for
Diagnosed ==
  containers[CHOOSE i \in DOMAIN containers : containers[i].name = result.container_name]

\* where the listing has the container of that name
ListingIndex(name) == CHOOSE i \in DOMAIN containers : containers[i].name = name

\* the sweep reads the log of container i
LogFetched(i) == containers[i].status \in {"running", "exited", "restarting"}

\* the issue types the sweep's report lists for a container, {} when it
\* lists none
ReportedTypes(name) ==
  LET e == result.returned.containers_with_issues
  IN  UNION { {e[k].issues[m].type : m \in DOMAIN e[k].issues} :
              k \in {k \in DOMAIN e : e[k].container.name = name} }

HasIndicator(line) ==
  \E i \in DOMAIN ERROR_INDICATORS : Contains(ERROR_INDICATORS[i], Lower(line))

OomMessage == "Container was killed due to Out of Memory. Consider increasing memory limits."

\* C1: diagnose_container_errors sets priority_issue by the first applicable
\* rule of the chain: OOM-killed, then non-zero exit code, then the first
\* critical finding in line order, then the first high finding, then a
\* status other than running, and None otherwise.
C1_PriorityChain ==
  DiagnoseReport =>
    LET r == result.returned
        c == Diagnosed
        found == analyze_log_errors(c.logs)
        critical == SelectSeq(found, LAMBDA e : e.severity = "critical")
        high == SelectSeq(found, LAMBDA e : e.severity = "high")
        first(es) == CHOOSE e \in {es[k] : k \in DOMAIN es} :
                       \A k \in DOMAIN es : e.line_number <= es[k].line_number
    IN  CASE c.oom_killed -> r.priority_issue = OomMessage
          [] ~c.oom_killed /\ c.exit_code # 0 ->
               r.priority_issue =
                 "Container exited with error code " \o ToString(c.exit_code) \o "."
          [] ~c.oom_killed /\ c.exit_code = 0 /\ critical # <<>> ->
               r.priority_issue = first(critical).recommendation
          [] ~c.oom_killed /\ c.exit_code = 0 /\ critical = <<>> /\ high # <<>> ->
               r.priority_issue = first(high).recommendation
          [] OTHER ->
               IF c.status # "running"
               THEN r.priority_issue =
                      "Container is not running (status: " \o c.status \o ")."
               ELSE r.priority_issue = None

\* an OOM-killed container whose log has a critical finding gets the OOM message
C1_Witness ==
  /\ DiagnoseReport
  /\ Diagnosed.oom_killed
  /\ result.returned.analysis.critical > 0
  /\ result.returned.priority_issue = OomMessage

\* C2: every finding carries the first entry of ERROR_PATTERNS, in
\* declaration order, whose expression matches its line case-insensitively
\* (generic_error when none does), and every candidate line gets exactly one
\* finding.
C2_FirstMatchWins ==
  LogAnalysed =>
    LET found == result.returned
        matches(p, line) == re_search(ERROR_PATTERNS[p].pattern, line)
    IN  /\ \A k \in DOMAIN found :
             LET line == logs[found[k].line_number]
             IN  \/ \E p \in DOMAIN ERROR_PATTERNS :
                      /\ found[k].error_type = ERROR_PATTERNS[p].error_name
                      /\ found[k].severity = ERROR_PATTERNS[p].severity
                      /\ matches(p, line)
                      /\ \A q \in 1..(p - 1) : ~matches(q, line)
                 \/ /\ found[k].error_type = "generic_error"
                    /\ \A q \in DOMAIN ERROR_PATTERNS : ~matches(q, line)
        /\ \A n \in DOMAIN logs :
             (Strip(logs[n]) # <<>> /\ HasIndicator(logs[n])) =>
               Cardinality({k \in DOMAIN found : found[k].line_number = n}) = 1

\* a line that connection_refused and out_of_memory both match is classified
\* connection_refused
C2_Witness ==
  /\ LogAnalysed
  /\ \E k \in DOMAIN result.returned :
       /\ logs[result.returned[k].line_number] = LineRefusedOom
       /\ re_search(ERROR_PATTERNS[3].pattern, LineRefusedOom)
       /\ result.returned[k].error_type = "connection_refused"

\* C3: a line yields a finding only if, lower-cased, it contains one of the
\* ten indicators; an indicator-free line yields none even when a registry
\* pattern matches it, and a text of indicator-free lines yields the empty list.
C3_IndicatorGate ==
  LogAnalysed =>
    LET found == result.returned
    IN  /\ \A k \in DOMAIN found : HasIndicator(logs[found[k].line_number])
        /\ \A n \in DOMAIN logs :
             ~HasIndicator(logs[n]) => \A k \in DOMAIN found : found[k].line_number # n
        /\ (\A n \in DOMAIN logs : ~HasIndicator(logs[n])) => found = <<>>

\* a text of a line that out_of_memory matches and that has no indicator
\* comes back with no finding
C3_Witness ==
  /\ LogAnalysed
  /\ \E n \in DOMAIN logs :
       /\ logs[n] = LineKilled
       /\ \E p \in DOMAIN ERROR_PATTERNS : re_search(ERROR_PATTERNS[p].pattern, logs[n])
       /\ ~HasIndicator(logs[n])
  /\ \A n \in DOMAIN logs : ~HasIndicator(logs[n])
  /\ result.returned = <<>>

\* C4: containers_with_issues is ordered by max severity, descending.
C4_SortedBySeverity ==
  SweepReport =>
    LET e == result.returned.containers_with_issues
    IN  \A i \in 1..(Len(e) - 1) : e[i].max_severity >= e[i + 1].max_severity

\* containers listed with max severities low, critical, high come out
\* critical, high, low
C4_Witness ==
  /\ SweepReport
  /\ LET e == result.returned.containers_with_issues
     IN  /\ Len(e) = 3
         /\ e[1].container.name = ContainerNames[2] /\ e[1].max_severity = 3
         /\ e[2].container.name = ContainerNames[3] /\ e[2].max_severity = 2
         /\ e[3].container.name = ContainerNames[1] /\ e[3].max_severity = 0

\* C5, as claimed: adjacent entries of equal max severity are ordered by
\* issue count, descending.
C5_TiesByIssueCount ==
  SweepReport =>
    LET e == result.returned.containers_with_issues
    IN  \A i \in 1..(Len(e) - 1) :
          e[i].max_severity = e[i + 1].max_severity =>
            e[i].issue_count >= e[i + 1].issue_count

\* C5, amended: adjacent entries of equal max severity are in the order in
\* which the runtime listed their containers, whatever their issue counts.
C5_TiesKeepListingOrder ==
  SweepReport =>
    LET e == result.returned.containers_with_issues
    IN  \A i \in 1..(Len(e) - 1) :
          e[i].max_severity = e[i + 1].max_severity =>
            ListingIndex(e[i].container.name) < ListingIndex(e[i + 1].container.name)

\* two adjacent entries of equal max severity, the earlier with fewer issues
C5_Witness ==
  /\ SweepReport
  /\ LET e == result.returned.containers_with_issues
     IN  \E i \in 1..(Len(e) - 1) :
           /\ e[i].max_severity = e[i + 1].max_severity
           /\ e[i].issue_count < e[i + 1].issue_count

\* C7: a container whose log cannot be fetched does not abort the sweep: the
\* report is a success report counting every listed container, and every
\* container listed after it has had its metadata checked and its log
\* classified.
C7_LogFailureDoesNotAbort ==
  ( /\ SweepReturned
    /\ runtime = "up"
    /\ \A i \in DOMAIN containers : containers[i].image_error = None
    /\ \E i \in DOMAIN containers : LogFetched(i) /\ containers[i].logs_error # None ) =>
    LET r == result.returned
    IN  /\ r.status = "success"
        /\ r.summary.total_containers = Len(containers)
        /\ \A i, j \in DOMAIN containers :
             (i < j /\ LogFetched(i) /\ containers[i].logs_error # None) =>
               LET c == containers[j]
                   found == analyze_log_errors(c.logs)
               IN  /\ c.status # "running" =>
                         "container_not_running" \in ReportedTypes(c.name)
                   /\ c.oom_killed => "oom_killed" \in ReportedTypes(c.name)
                   /\ c.restart_count > 5 => "restart_loop" \in ReportedTypes(c.name)
                   /\ (LogFetched(j) /\ c.logs_error = None /\ found # <<>>) =>
                         found[1].error_type \in ReportedTypes(c.name)

\* the first container's log cannot be fetched and the report lists a
\* finding from the log of a later one
C7_Witness ==
  /\ SweepReport
  /\ LogFetched(1) /\ containers[1].logs_error # None
  /\ \E j \in 2..Len(containers) :
       /\ containers[j].logs_error = None
       /\ "out_of_memory" \in ReportedTypes(containers[j].name)

\* C8, as claimed: a container whose log fetch failed is listed apart, neither
\* among the containers with issues nor among the healthy ones.
C8_UnavailableListedApart ==
  SweepReport =>
    LET r == result.returned
        unavailable == {i \in DOMAIN containers :
                          LogFetched(i) /\ containers[i].logs_error # None}
    IN  /\ \A i \in unavailable :
             \A k \in DOMAIN r.containers_with_issues :
               r.containers_with_issues[k].container.name # containers[i].name
        /\ r.summary.containers_with_issues + r.summary.healthy_containers
             = r.summary.total_containers - Cardinality(unavailable)

\* C9, as claimed: the sweep always comes back with a report and its summary.
C9_AlwaysAReport ==
  SweepReturned =>
    /\ result.returned.status = "success"
    /\ "summary" \in DOMAIN result.returned

\* C9, amended: the sweep always comes back with a value: its report with the
\* five totals when the daemon answers and every container's image can be
\* read (a log that cannot be fetched changes nothing to that), and otherwise
\* the decorator's error object, which has no summary.
C9_ReportOrErrorObject ==
  SweepReturned =>
    LET r == result.returned
        error(type) == /\ DOMAIN r = {"status", "error_type", "message"}
                       /\ r.status = "error"
                       /\ r.error_type = type
    IN  CASE runtime = "down" -> error("DockerConnectionError")
          [] runtime = "api_error" -> error("DockerAPIError")
          [] runtime = "up" /\ \E i \in DOMAIN containers : containers[i].image_error # None ->
               error("ContainerNotFound")
          [] OTHER ->
               /\ r.status = "success"
               /\ DOMAIN r.summary = {"total_containers", "containers_with_issues",
                                      "healthy_containers", "total_issues",
                                      "critical_containers"}
               /\ r.summary.total_containers = Len(containers)

\* the daemon is down and the sweep comes back with an error object
C9_Witness ==
  /\ SweepReturned
  /\ runtime = "down"
  /\ result.returned.status = "error"
  /\ "summary" \notin DOMAIN result.returned

\* C10, as claimed: an error raised while one container is processed leaves
\* the entries of the other containers in what the sweep returns.
C10_FailuresContained ==
  (SweepReturned /\ runtime = "up") =>
    LET r == result.returned
    IN  /\ r.status = "success"
        /\ r.summary.containers_with_issues + r.summary.healthy_containers
             >= Cardinality({i \in DOMAIN containers : containers[i].image_error = None})

\* C10, as claimed, for the executions sweep: an execution record without "id"
\* leaves the entries of the other executions in what the tool returns
C10_ExecutionFailuresContained ==
  (result.tool = "analyze_execution_failures" /\ engine = "up") =>
    /\ result.returned.json = "array"
    /\ Len(result.returned.value)
         >= Cardinality({k \in DOMAIN executions : "id" \in DOMAIN executions[k]})

\* _extract_error_details was called, and came back with a diagnosis
TraceExtracted == result.tool = "_extract_error_details"

TraceDiagnosed == TraceExtracted /\ "raised" \notin DOMAIN result.returned

\* the runData items of the execution _extract_error_details was called for
ExtractedRunData ==
  LET exc == executions[result.execution]
  IN  IF "data" \in DOMAIN exc
      THEN Get(Get(exc["data"], "resultData", EmptyDict), "runData", <<>>)
      ELSE <<>>

\* the items of a runData with an error-bearing run
FailingSteps(run_data) ==
  {n \in DOMAIN run_data :
     \E r \in DOMAIN run_data[n][2] : "error" \in DOMAIN run_data[n][2][r]}

\* C6, as claimed: when several steps of runData carry an error-bearing
\* attempt, failed_node is the first of them in the trace's step order, and
\* error_message is that step's.
C6_FirstFailingStepReported ==
  TraceDiagnosed =>
    LET run_data == ExtractedRunData
        failing == FailingSteps(run_data)
    IN  failing # {} =>
          LET n == CHOOSE n \in failing : \A m \in failing : n <= m
              runs == run_data[n][2]
              r == CHOOSE r \in DOMAIN runs :
                     /\ "error" \in DOMAIN runs[r]
                     /\ \A q \in 1..(r - 1) : "error" \notin DOMAIN runs[q]
              error == runs[r]["error"]
          IN  /\ result.returned.failed_node = run_data[n][1]
              /\ result.returned.error_message =
                   IF error.type = "dict" THEN Get(error.value, "message", Str(error))
                   ELSE Str(error)

\* C11, as claimed: _extract_error_details never raises for a malformed
\* trace, and a trace whose 'data' is missing or null gets a diagnosis of
\* defaults.
C11_MalformedTraceDefaults ==
  TraceExtracted =>
    /\ "raised" \notin DOMAIN result.returned
    /\ LET exc == executions[result.execution]
       IN  ("data" \notin DOMAIN exc \/ IsNoneDict(exc["data"])) =>
             result.returned = DefaultErrorInfo

\* "out of memory", "oom", "killed"
OomWords ==
  { <<"o","u","t"," ","o","f"," ","m","e","m","o","r","y">>,
    <<"o","o","m">>,
    <<"k","i","l","l","e","d">> }

\* "connection refused"
StrConnectionRefused ==
  <<"c","o","n","n","e","c","t","i","o","n"," ","r","e","f","u","s","e","d">>

\* the line has one of the words, in any letter case
HasOomWord(line) == \E w \in OomWords : Contains(w, Lower(line))

\* the findings of the analysed text for its line n
FindingsAt(n) == SelectSeq(result.returned, LAMBDA e : e.line_number = n)

\* C12, as claimed: every line with "out of memory", "OOM" or "killed", in any
\* letter case, gets a finding, of severity critical.
C12_OomLineAlwaysCritical ==
  LogAnalysed =>
    \A n \in DOMAIN logs :
      HasOomWord(logs[n]) =>
        \E k \in DOMAIN result.returned :
          /\ result.returned[k].line_number = n
          /\ result.returned[k].severity = "critical"

\* C12, amended: a line with one of these words gets its finding, the one
\* of out_of_memory with severity critical, when it also has an indicator and
\* neither connection_refused nor permission_denied, the entries declared
\* before out_of_memory, matches it; with no indicator it gets no finding,
\* and when an earlier entry matches it gets that entry's finding.
C12_OomCriticalWhenFirstMatch ==
  LogAnalysed =>
    \A n \in DOMAIN logs :
      HasOomWord(logs[n]) =>
        LET earlier == {p \in 1..2 : re_search(ERROR_PATTERNS[p].pattern, logs[n])}
            found == FindingsAt(n)
        IN  IF ~HasIndicator(logs[n]) THEN found = <<>>
            ELSE /\ Len(found) = 1
                 /\ IF earlier = {}
                    THEN /\ found[1].error_type = "out_of_memory"
                         /\ found[1].severity = "critical"
                    ELSE /\ found[1].error_type \in {ERROR_PATTERNS[p].error_name : p \in earlier}
                         /\ found[1].severity = "high"

\* a text with "FATAL: out of memory", which gets the critical finding, and
\* with "OOM killed process 42", which gets none
C12_Witness ==
  /\ LogAnalysed
  /\ \E n, m \in DOMAIN logs :
       /\ logs[n] = LineFatalOom /\ HasOomWord(logs[n])
       /\ \E k \in DOMAIN result.returned :
            /\ result.returned[k].line_number = n
            /\ result.returned[k].severity = "critical"
       /\ logs[m] = LineKilled /\ HasOomWord(logs[m])
       /\ FindingsAt(m) = <<>>

\* C13: every line with "connection refused", in any letter case, gets a
\* finding of severity high and error type connection_refused, whatever else
\* the line and the other lines hold.
C13_ConnectionRefusedHigh ==
  LogAnalysed =>
    \A n \in DOMAIN logs :
      Contains(StrConnectionRefused, Lower(logs[n])) =>
        \E k \in DOMAIN result.returned :
          /\ result.returned[k].line_number = n
          /\ result.returned[k].severity = "high"
          /\ result.returned[k].error_type = "connection_refused"

\* "Connection REFUSED by peer" after a line of another finding, and
\* "connection refused: OOM killed", both found as connection_refused
C13_Witness ==
  /\ LogAnalysed
  /\ Len(logs) >= 2
  /\ \E n \in DOMAIN logs : logs[n] \in {LineRefusedUpper, LineRefusedOom}
  /\ \A n \in DOMAIN logs :
       logs[n] \in {LineRefusedUpper, LineRefusedOom} =>
         /\ Contains(StrConnectionRefused, Lower(logs[n]))
         /\ \E k \in DOMAIN result.returned :
              /\ result.returned[k].line_number = n
              /\ result.returned[k].error_type = "connection_refused"
  /\ \E k \in DOMAIN result.returned : result.returned[k].error_type # "connection_refused"

\* C14: in every report of diagnose_container_errors the four severity
\* counts sum to total_errors_found, the number of findings of the fetched
\* log, each finding having one of the four severities and being counted
\* under it alone.
C14_CountsSumToFindings ==
  DiagnoseReport =>
    LET a == result.returned.analysis
        found == analyze_log_errors(Diagnosed.logs)
        count(severity) ==
          Cardinality({k \in DOMAIN found : found[k].severity = severity})
    IN  /\ a.total_errors_found = Len(found)
        /\ a.critical + a.high + a.medium + a.low = a.total_errors_found
        /\ \A k \in DOMAIN found :
             found[k].severity \in {"critical", "high", "medium", "low"}
        /\ a.critical = count("critical") /\ a.high = count("high")
        /\ a.medium = count("medium") /\ a.low = count("low")

\* a report counting findings of all four severities
C14_Witness ==
  /\ DiagnoseReport
  /\ LET a == result.returned.analysis
     IN  /\ a.critical > 0 /\ a.high > 0 /\ a.medium > 0 /\ a.low > 0
         /\ a.total_errors_found = a.critical + a.high + a.medium + a.low

\* C15: the report of diagnose_container_errors lists at most 5 critical,
\* 5 high, 3 medium and 2 low findings, and the ones listed under a severity
\* are the earliest findings of that severity in line order.
C15_BucketsCapped ==
  DiagnoseReport =>
    LET found == analyze_log_errors(Diagnosed.logs)
        capped(listed, severity, cap) ==
          LET all == {k \in DOMAIN found : found[k].severity = severity}
          IN  /\ Len(listed) <= cap
              /\ Len(listed) = IF Cardinality(all) < cap THEN Cardinality(all) ELSE cap
              /\ \A i \in DOMAIN listed : \E k \in all : listed[i] = found[k]
              /\ \A i, j \in DOMAIN listed :
                   i < j => listed[i].line_number < listed[j].line_number
              /\ \A k \in all :
                   (\A i \in DOMAIN listed : listed[i] # found[k]) =>
                     \A i \in DOMAIN listed : listed[i].line_number < found[k].line_number
        errors == result.returned.errors
    IN  /\ capped(errors.critical, "critical", 5)
        /\ capped(errors.high, "high", 5)
        /\ capped(errors.medium, "medium", 3)
        /\ capped(errors.low, "low", 2)

\* a report with more findings than the cap under every severity, each
\* bucket holding its cap
C15_Witness ==
  /\ DiagnoseReport
  /\ LET a == result.returned.analysis
         errors == result.returned.errors
     IN  /\ a.critical > 5 /\ Len(errors.critical) = 5
         /\ a.high > 5 /\ Len(errors.high) = 5
         /\ a.medium > 3 /\ Len(errors.medium) = 3
         /\ a.low > 2 /\ Len(errors.low) = 2

\* the issues the sweep's report lists for a container, <<>> when it is
\* not among the containers with issues
ReportedIssues(name) ==
  LET e == result.returned.containers_with_issues
      at == {k \in DOMAIN e : e[k].container.name = name}
  IN  IF at = {} THEN <<>> ELSE e[CHOOSE k \in at : TRUE].issues

\* the issue types the sweep sets from a container's metadata
MetadataTypes == {"container_not_running", "oom_killed", "restart_loop"}

\* the report has, for each error type of these findings, one issue, which
\* is of the earliest of them with that type, and no issue from the log
\* besides
OncePerType(name, findings) ==
  LET issues == ReportedIssues(name)
      from_log == {m \in DOMAIN issues : issues[m].type \notin MetadataTypes}
  IN  /\ \A k \in DOMAIN findings :
           LET first == CHOOSE j \in DOMAIN findings :
                          /\ findings[j].error_type = findings[k].error_type
                          /\ \A q \in 1..(j - 1) :
                               findings[q].error_type # findings[k].error_type
               of_type == {m \in from_log : issues[m].type = findings[k].error_type}
           IN  /\ Cardinality(of_type) = 1
               /\ \A m \in of_type :
                    /\ issues[m].message = Take(findings[first].log_line, 100)
                    /\ issues[m].severity = findings[first].severity
      /\ \A m \in from_log :
           \E k \in DOMAIN findings : findings[k].error_type = issues[m].type

\* C16, as claimed: every distinct error type found in a container's fetched
\* log appears exactly once among the container's issues, as its earliest
\* finding.
C16_EveryTypeOnce ==
  SweepReport =>
    \A i \in DOMAIN containers :
      (LogFetched(i) /\ containers[i].logs_error = None) =>
        OncePerType(containers[i].name, analyze_log_errors(containers[i].logs))

\* C16, amended: that holds of the error types of the first five findings
\* of the log; a type found only after the fifth finding has no issue.
C16_FirstFiveTypesOnce ==
  SweepReport =>
    \A i \in DOMAIN containers :
      (LogFetched(i) /\ containers[i].logs_error = None) =>
        OncePerType(containers[i].name,
                    Take(analyze_log_errors(containers[i].logs), 5))

\* a log whose first five findings repeat a type, listed once, and whose
\* sixth finding is of a type that is not listed
C16_Witness ==
  /\ SweepReport
  /\ \E i \in DOMAIN containers :
       LET found == analyze_log_errors(containers[i].logs)
       IN  /\ LogFetched(i) /\ containers[i].logs_error = None
           /\ Len(found) > 5
           /\ found[1].error_type = found[2].error_type
           /\ Cardinality({m \in DOMAIN ReportedIssues(containers[i].name) :
                             ReportedIssues(containers[i].name)[m].type
                               = found[1].error_type}) = 1
           /\ found[6].error_type \notin ReportedTypes(containers[i].name)

\* C17: the totals of the sweep's report agree with what it lists:
\* total_containers is the number of containers the runtime listed, the
\* containers with issues and the healthy ones add up to it, total_issues is
\* the sum of issue_count over containers_with_issues, and
\* critical_containers is the number of entries of max severity critical.
C17_TotalsConsistent ==
  SweepReport =>
    LET r == result.returned
        e == r.containers_with_issues
    IN  /\ r.summary.total_containers = Len(containers)
        /\ r.summary.containers_with_issues = Len(e)
        /\ r.summary.containers_with_issues + r.summary.healthy_containers
             = r.summary.total_containers
        /\ \A k \in DOMAIN e : e[k].issue_count = Len(e[k].issues)
        /\ r.summary.total_issues
             = Cardinality(UNION { {<<k, m>> : m \in 1..e[k].issue_count} : k \in DOMAIN e })
        /\ r.summary.critical_containers
             = Cardinality({k \in DOMAIN e : e[k].max_severity = SeverityIndex("critical")})
        /\ "healthy_containers" \in DOMAIN r =>
             Len(r.healthy_containers) = r.summary.healthy_containers

\* a report of a critical container with several issues, a container with
\* one issue and a healthy one
C17_Witness ==
  /\ SweepReport
  /\ LET r == result.returned
         e == r.containers_with_issues
     IN  /\ Len(e) = 2
         /\ e[1].issue_count > 1 /\ e[2].issue_count >= 1
         /\ r.summary.critical_containers = 1
         /\ r.summary.healthy_containers = 1
         /\ r.summary.total_issues = e[1].issue_count + e[2].issue_count

\* the findings the sweep has for container i: those of its log, when it
\* fetches and gets it
SweepFindings(i) ==
  IF LogFetched(i) /\ containers[i].logs_error = None
  THEN analyze_log_errors(containers[i].logs)
  ELSE <<>>

NominalMetadata(c) == c.status = "running" /\ ~c.oom_killed /\ c.restart_count <= 5

\* C18: the sweep puts every container in exactly one of
\* containers_with_issues and healthy_containers, and in healthy_containers
\* exactly when it has no findings for it and its metadata are nominal.
C18_Partition ==
  SweepReport =>
    LET r == result.returned
        e == r.containers_with_issues
        clean == {i \in DOMAIN containers :
                    SweepFindings(i) = <<>> /\ NominalMetadata(containers[i])}
    IN  /\ \A i \in DOMAIN containers :
             Cardinality({k \in DOMAIN e : e[k].container.name = containers[i].name})
               = IF i \in clean THEN 0 ELSE 1
        /\ r.summary.healthy_containers = Cardinality(clean)
        /\ "healthy_containers" \in DOMAIN r =>
             \A i \in DOMAIN containers :
               Cardinality({k \in DOMAIN r.healthy_containers :
                              r.healthy_containers[k].name = containers[i].name})
                 = IF i \in clean THEN 1 ELSE 0

\* a report listing its healthy containers: one container with findings in
\* its log alone, one with a metadata issue alone, one clean
C18_Witness ==
  /\ SweepReport
  /\ "healthy_containers" \in DOMAIN result.returned
  /\ Len(result.returned.healthy_containers) = 1
  /\ \E i, j \in DOMAIN containers :
       /\ SweepFindings(i) # <<>> /\ NominalMetadata(containers[i])
       /\ SweepFindings(j) = <<>> /\ ~NominalMetadata(containers[j])
       /\ ReportedIssues(containers[i].name) # <<>>
       /\ ReportedIssues(containers[j].name) # <<>>

\* the orders in which the runtime may list the same containers
ListingOrders ==
  {p \in [DOMAIN containers -> DOMAIN containers] :
     \A i, j \in DOMAIN containers : p[i] = p[j] => i = j}

\* containers_with_issues of the sweep over the same containers listed in
\* the order p
SweepListed(p) ==
  analyze_all_container_errors(runtime, [i \in DOMAIN containers |-> containers[p[i]]],
                               FALSE).containers_with_issues

\* C19, as claimed: whatever the order in which the same containers are
\* listed, the sweep yields the same sequence in containers_with_issues.
C19_OrderIndependentOfListing ==
  SweepReport =>
    \A p \in ListingOrders : SweepListed(p) = result.returned.containers_with_issues

\* C19, amended: whatever the order in which the same containers are listed,
\* the sweep yields the same entries and the same sequence of max
\* severities; entries of equal max severity come in the order of the
\* listing, so their order changes with it.
C19_OrderUpToTies ==
  SweepReport =>
    LET e == result.returned.containers_with_issues
    IN  \A p \in ListingOrders :
          LET o == SweepListed(p)
              listed(name) == CHOOSE i \in DOMAIN containers :
                                containers[p[i]].name = name
          IN  /\ Len(o) = Len(e)
              /\ {o[k] : k \in DOMAIN o} = {e[k] : k \in DOMAIN e}
              /\ \A k \in DOMAIN e : o[k].max_severity = e[k].max_severity
              /\ \A k \in 1..(Len(o) - 1) :
                   o[k].max_severity = o[k + 1].max_severity =>
                     listed(o[k].container.name) < listed(o[k + 1].container.name)

\* a report of containers of different max severities, two of them equal,
\* which comes in another sequence when the containers are listed otherwise
C19_Witness ==
  /\ SweepReport
  /\ LET e == result.returned.containers_with_issues
     IN  /\ Len(e) = 3
         /\ e[1].max_severity > e[2].max_severity
         /\ e[2].max_severity = e[3].max_severity
         /\ \E p \in ListingOrders :
              /\ SweepListed(p) # e
              /\ \A k \in DOMAIN e : SweepListed(p)[k].max_severity = e[k].max_severity

\* C20, as claimed: when the time allowed runs out on some containers, the
\* sweep still comes back with its report, in which the other containers
\* have their issues and each container that timed out is reported as
\* unavailable / timed out.
C20_TimedOutSubjectsReported ==
  ( /\ SweepReturned
    /\ runtime = "up"
    /\ \A i \in DOMAIN containers : containers[i].image_error = None ) =>
    LET r == result.returned
    IN  /\ r.status = "success"
        /\ \A i \in DOMAIN containers :
             (LogFetched(i) /\ containers[i].logs_error = "ReadTimeout") =>
               \/ /\ "unavailable" \in DOMAIN r
                  /\ \E k \in DOMAIN r.unavailable :
                       r.unavailable[k].name = containers[i].name
               \/ \E m \in DOMAIN ReportedIssues(containers[i].name) :
                    ReportedIssues(containers[i].name)[m].type
                      \in {"unavailable", "timed_out", "timeout"}

EntryOf(entries, name) == SelectSeq(entries, LAMBDA e : e.container.name = name)

\* containers_with_issues of the sweep over container i alone
SweepAlone(i) ==
  analyze_all_container_errors(runtime, <<containers[i]>>, FALSE).containers_with_issues

\* C22: what the sweep reports for a container (its issues, issue_count and
\* max_severity, or no entry) is what a sweep over that container alone
\* reports for it, whatever the other containers of the listing are and in
\* whatever order they are listed; an error type found in the log of an
\* earlier container is listed again for a later one.
C22_SubjectIsolation ==
  SweepReport =>
    LET same(reported, entries) ==
          \A i \in DOMAIN containers :
            EntryOf(entries, containers[i].name) = EntryOf(reported, containers[i].name)
    IN  /\ \A i \in DOMAIN containers :
             EntryOf(result.returned.containers_with_issues, containers[i].name)
               = SweepAlone(i)
        /\ \A p \in ListingOrders :
             same(result.returned.containers_with_issues, SweepListed(p))

\* two containers with the same error type in their logs and different
\* metadata: the type is listed for both, each entry as for the container alone
C22_Witness ==
  /\ SweepReport
  /\ \E i, j \in DOMAIN containers :
       /\ i < j
       /\ "out_of_memory" \in ReportedTypes(containers[i].name)
       /\ "out_of_memory" \in ReportedTypes(containers[j].name)
       /\ containers[i].status # containers[j].status
       /\ EntryOf(result.returned.containers_with_issues, containers[j].name)
            = SweepAlone(j)
       /\ EntryOf(result.returned.containers_with_issues, containers[i].name)
            # EntryOf(result.returned.containers_with_issues, containers[j].name)

\* diagnose_execution came back with its diagnosis
ExecutionDiagnosed ==
  result.tool = "diagnose_execution" /\ "diagnosis" \in DOMAIN result.returned

\* the error_info that came back, from _extract_error_details itself or in
\* the diagnosis of diagnose_execution
HasDiagnosis == TraceDiagnosed \/ ExecutionDiagnosed

Diagnosis == IF TraceExtracted THEN result.returned ELSE result.returned.diagnosis

\* resultData of the execution the call was for
ExtractedResultData ==
  LET exc == executions[result.execution]
  IN  IF "data" \in DOMAIN exc THEN Get(exc["data"], "resultData", EmptyDict)
      ELSE EmptyDict

\* the error-bearing attempts of a runData: <<item, attempt>>
FailingAttempts(run_data) ==
  UNION { {<<n, r>> : r \in {r \in DOMAIN run_data[n][2] :
                               "error" \in DOMAIN run_data[n][2][r]}} :
          n \in DOMAIN run_data }

\* the first error-bearing attempt of the item n
FirstFailingAttempt(run_data, n) ==
  CHOOSE r \in DOMAIN run_data[n][2] :
    /\ "error" \in DOMAIN run_data[n][2][r]
    /\ \A q \in 1..(r - 1) : "error" \notin DOMAIN run_data[n][2][q]

\* the message of an attempt's error: its "message", or its text
AttemptMessage(error) ==
  IF error.type = "dict" THEN Get(error.value, "message", Str(error)) ELSE Str(error)

Recommendation404(node) ==
  "The endpoint or resource in node '" \o node
  \o "' returned 404. Check the URL path or resource ID."

\* C23: in the diagnosis of a trace with a top-level error object and a step
\* attempt carrying a dict error, failed_node and error_message are taken
\* at the attempt level: failed_node is the name of a step with an
\* error-bearing attempt and error_message the message of such an attempt of
\* that step.  With exactly one failing step, whose error is a dict with a
\* message, failed_node is that step and error_message that message, and for
\* '404 Not Found' diagnose_execution recommends to check the URL path or
\* resource ID.
C23_AttemptOverTopLevel ==
  HasDiagnosis =>
    LET run_data == ExtractedRunData
        d == Diagnosis
        attempts == FailingAttempts(run_data)
        failing == FailingSteps(run_data)
    IN  /\ ( /\ "error" \in DOMAIN ExtractedResultData
             /\ \E a \in attempts : run_data[a[1]][2][a[2]]["error"].type = "dict" ) =>
             \E a \in attempts :
               /\ d.failed_node = run_data[a[1]][1]
               /\ d.error_message = AttemptMessage(run_data[a[1]][2][a[2]]["error"])
        /\ \A n \in failing :
             LET error == run_data[n][2][FirstFailingAttempt(run_data, n)]["error"]
             IN  (failing = {n} /\ error.type = "dict" /\ "message" \in DOMAIN error.value) =>
                   /\ d.failed_node = run_data[n][1]
                   /\ d.error_message = error.value["message"]
                   /\ (ExecutionDiagnosed /\ error.value["message"] = Msg404) =>
                        result.returned.recommendation = Recommendation404(run_data[n][1])

\* a trace that ends with the top-level error of node 'Set' and has the one
\* failing step 'HTTP Request' with '404 Not Found', diagnosed as that step's
\* failure
C23_Witness ==
  /\ ExecutionDiagnosed
  /\ "error" \in DOMAIN ExtractedResultData
  /\ ExtractedResultData["error"]["message"] = MsgWorkflow
  /\ "node" \in DOMAIN ExtractedResultData["error"]
  /\ Len(ExtractedRunData) = 1
  /\ ExtractedRunData[1][1] = "HTTP Request"
  /\ "error" \in DOMAIN ExtractedRunData[1][2][1]
  /\ ExtractedRunData[1][2][1]["error"].type = "dict"
  /\ result.returned.diagnosis.failed_node = "HTTP Request"
  /\ result.returned.diagnosis.error_message = Msg404
  /\ result.returned.recommendation = Recommendation404("HTTP Request")

\* the line passes both filters of the loop: it is not blank and has an
\* indicator
Candidate(line) == Strip(line) # <<>> /\ HasIndicator(line)

\* C24: the findings of _analyze_log_errors come in line order with 1-based
\* line numbers: line_number is strictly increasing along the list, it is
\* the position of the finding's line in the text split on newline (blank
\* lines and lines without indicator count), and every candidate line has one
\* finding and no line has more.
C24_LineOrder ==
  LogAnalysed =>
    LET found == result.returned
    IN  /\ \A k \in 1..(Len(found) - 1) : found[k].line_number < found[k + 1].line_number
        /\ \A k \in DOMAIN found :
             /\ found[k].line_number \in DOMAIN logs
             /\ Candidate(logs[found[k].line_number])
             /\ found[k].log_line = Take(Strip(logs[found[k].line_number]), 200)
        /\ \A n \in DOMAIN logs :
             Len(FindingsAt(n)) = IF Candidate(logs[n]) THEN 1 ELSE 0

\* a text whose first line is skipped and whose second line gets the only
\* finding, numbered 2
C24_Witness ==
  /\ LogAnalysed
  /\ Len(logs) = 2
  /\ ~Candidate(logs[1])
  /\ Candidate(logs[2])
  /\ Len(result.returned) = 1
  /\ result.returned[1].line_number = 2

\* no entry of ERROR_PATTERNS matches the line
Unmatched(line) ==
  \A p \in DOMAIN ERROR_PATTERNS : ~re_search(ERROR_PATTERNS[p].pattern, line)

GenericRecommendation == "Review this error line for more context."

\* C25, as claimed: every candidate line that no entry of ERROR_PATTERNS
\* matches gets exactly one finding, of severity low, with None for its
\* pattern identifier and the generic review recommendation.
C25_GenericFindingNoPatternId ==
  LogAnalysed =>
    \A n \in DOMAIN logs :
      (Candidate(logs[n]) /\ Unmatched(logs[n])) =>
        /\ Len(FindingsAt(n)) = 1
        /\ FindingsAt(n)[1].severity = "low"
        /\ FindingsAt(n)[1].error_type = None
        /\ FindingsAt(n)[1].recommendation = GenericRecommendation

\* C25, amended: such a line gets exactly one finding, of severity low, with
\* the generic review recommendation, and its error_type is the string
\* "generic_error", which is the name of no entry of ERROR_PATTERNS.
C25_GenericFinding ==
  LogAnalysed =>
    \A n \in DOMAIN logs :
      (Candidate(logs[n]) /\ Unmatched(logs[n])) =>
        /\ Len(FindingsAt(n)) = 1
        /\ FindingsAt(n)[1].severity = "low"
        /\ FindingsAt(n)[1].error_type = "generic_error"
        /\ \A p \in DOMAIN ERROR_PATTERNS :
             ERROR_PATTERNS[p].error_name # FindingsAt(n)[1].error_type
        /\ FindingsAt(n)[1].recommendation = GenericRecommendation
        /\ FindingsAt(n)[1].log_line = Take(Strip(logs[n]), 200)

\* "ERROR something broke" after a line that a pattern matches: it gets the
\* generic finding
C25_Witness ==
  /\ LogAnalysed
  /\ Len(logs) = 2
  /\ ~Unmatched(logs[1]) /\ Candidate(logs[1])
  /\ logs[2] = LineGeneric
  /\ Candidate(logs[2]) /\ Unmatched(logs[2])
  /\ Len(result.returned) = 2
  /\ result.returned[2].error_type = "generic_error"
  /\ result.returned[2].severity = "low"

RecommendationAuth(node) ==
  "Authentication failed in node '" \o node \o "'. Verify API credentials or tokens."

RecommendationTimeout(node) ==
  "Node '" \o node
  \o "' timed out. Consider increasing timeout or checking endpoint availability."

RecommendationJson(node) ==
  "Node '" \o node
  \o "' received invalid JSON. Check the data format from the previous node."

RecommendationProperty(node) ==
  "Node '" \o node
  \o "' tried to access a missing property. Check input data structure."

RecommendationReview(node) ==
  "Review the error in node '" \o node
  \o "' and verify its configuration and input data."

\* C26: the recommendation is that of the first rule, in the order 404 /
\* not found, 401 / unauthorized, timeout, json / parse, undefined /
\* property, that the lower-cased error message satisfies, and the generic
\* review message when it satisfies none; a message with '401' and
\* 'not found' gets the recommendation of the 404 rule.
C26_FirstRuleWins ==
  ExecutionDiagnosed =>
    LET d == result.returned.diagnosis
        node == d.failed_node
        message == Lower(d.error_message)
        rule1 == Contains(Str404, message) \/ Contains(StrNotFound, message)
        rule2 == Contains(Str401, message) \/ Contains(StrUnauthorized, message)
        rule3 == Contains(StrTimeout, message)
        rule4 == Contains(StrJson, message) \/ Contains(StrParse, message)
        rule5 == Contains(StrUndefined, message) \/ Contains(StrProperty, message)
        r == result.returned.recommendation
    IN  /\ rule1 => r = Recommendation404(node)
        /\ (~rule1 /\ rule2) => r = RecommendationAuth(node)
        /\ (~rule1 /\ ~rule2 /\ rule3) => r = RecommendationTimeout(node)
        /\ (~rule1 /\ ~rule2 /\ ~rule3 /\ rule4) => r = RecommendationJson(node)
        /\ (~rule1 /\ ~rule2 /\ ~rule3 /\ ~rule4 /\ rule5) => r = RecommendationProperty(node)
        /\ (~rule1 /\ ~rule2 /\ ~rule3 /\ ~rule4 /\ ~rule5) => r = RecommendationReview(node)

\* '401 Not Found', which the rules of 404 and of 401 both fit, gets the
\* recommendation of the 404 rule
C26_Witness ==
  /\ ExecutionDiagnosed
  /\ result.returned.diagnosis.error_message
       = <<"4","0","1"," ","N","o","t"," ","F","o","u","n","d">>
  /\ Contains(Str401, Lower(result.returned.diagnosis.error_message))
  /\ Contains(StrNotFound, Lower(result.returned.diagnosis.error_message))
  /\ result.returned.recommendation
       = Recommendation404(result.returned.diagnosis.failed_node)

\* the item of runData that failed_node names
ReportedStep(run_data, failed_node) ==
  {n \in FailingSteps(run_data) : run_data[n][1] = failed_node}

\* C27: of the step that failed_node names, the first error-bearing attempt
\* is the one read: error_message is its error's message, error_type and
\* stack_trace are its error's when that is a dict, input_data is its
\* inputData or else its source, whatever the later attempts of the step
\* carry.
C27_FirstAttemptAuthoritative ==
  HasDiagnosis =>
    LET run_data == ExtractedRunData
        d == Diagnosis
    IN  FailingSteps(run_data) # {} =>
          /\ ReportedStep(run_data, d.failed_node) # {}
          /\ \A n \in ReportedStep(run_data, d.failed_node) :
               LET run == run_data[n][2][FirstFailingAttempt(run_data, n)]
                   error == run["error"]
               IN  /\ d.error_message = AttemptMessage(error)
                   /\ error.type = "dict" =>
                        /\ d.error_type = Get(error.value, "name", StrError)
                        /\ d.stack_trace = Get(error.value, "stack", NoneText)
                   /\ "inputData" \in DOMAIN run => d.input_data = run["inputData"]
                   /\ ("inputData" \notin DOMAIN run /\ "source" \in DOMAIN run) =>
                        d.input_data = run["source"]

\* a step with two error-bearing attempts of different messages, diagnosed
\* with the message, type and input data of the first
C27_Witness ==
  /\ TraceDiagnosed
  /\ Len(ExtractedRunData) = 1
  /\ Len(ExtractedRunData[1][2]) = 2
  /\ "error" \in DOMAIN ExtractedRunData[1][2][1]
  /\ "error" \in DOMAIN ExtractedRunData[1][2][2]
  /\ ExtractedRunData[1][2][1]["error"].type = "dict"
  /\ "inputData" \in DOMAIN ExtractedRunData[1][2][1]
  /\ AttemptMessage(ExtractedRunData[1][2][1]["error"])
       # AttemptMessage(ExtractedRunData[1][2][2]["error"])
  /\ "source" \in DOMAIN ExtractedRunData[1][2][2]
  /\ result.returned.error_message = AttemptMessage(ExtractedRunData[1][2][1]["error"])
  /\ result.returned.input_data = ExtractedRunData[1][2][1]["inputData"]

\* C28, as claimed: when failed_node names a step of runData with an
\* error-bearing attempt, there is one attempt of that step from which
\* error_message, error_type, stack_trace and input_data all come, each of
\* them being that attempt's value or the default.
C28_CoherentDiagnosis ==
  HasDiagnosis =>
    LET run_data == ExtractedRunData
        d == Diagnosis
    IN  \A n \in ReportedStep(run_data, d.failed_node) :
          \E r \in {r \in DOMAIN run_data[n][2] : "error" \in DOMAIN run_data[n][2][r]} :
            LET run == run_data[n][2][r]
                error == run["error"]
            IN  /\ d.error_message \in {AttemptMessage(error), DefaultErrorInfo.error_message}
                /\ d.error_type \in
                     (IF error.type = "dict" THEN {Get(error.value, "name", StrError)} ELSE {})
                     \cup {DefaultErrorInfo.error_type}
                /\ d.stack_trace \in
                     (IF error.type = "dict" THEN {Get(error.value, "stack", NoneText)} ELSE {})
                     \cup {DefaultErrorInfo.stack_trace}
                /\ d.input_data \in
                     (IF "inputData" \in DOMAIN run THEN {run["inputData"]}
                      ELSE IF "source" \in DOMAIN run THEN {run["source"]}
                      ELSE {})
                     \cup {DefaultErrorInfo.input_data}

\* the severities, as indices, of the metadata issues of container i and of
\* every finding of its fetched log
SeveritiesOf(i) ==
  {SeverityIndex(MetadataIssues(containers[i])[m].severity) :
     m \in DOMAIN MetadataIssues(containers[i])}
  \cup {SeverityIndex(SweepFindings(i)[k].severity) : k \in DOMAIN SweepFindings(i)}

\* C29, as claimed: a container's max_severity in the sweep's report is the
\* maximum severity over its metadata issues and all the findings of its
\* fetched log; a container whose log has a finding of severity critical has
\* max_severity critical and is counted in critical_containers.
C29_MaxSeverityOverAllFindings ==
  SweepReport =>
    LET e == result.returned.containers_with_issues
        critical == {i \in DOMAIN containers :
                       \E k \in DOMAIN SweepFindings(i) :
                         SweepFindings(i)[k].severity = "critical"}
    IN  /\ \A i \in DOMAIN containers :
             SeveritiesOf(i) # {} =>
               /\ Len(EntryOf(e, containers[i].name)) = 1
               /\ \A s \in SeveritiesOf(i) :
                    s <= EntryOf(e, containers[i].name)[1].max_severity
               /\ EntryOf(e, containers[i].name)[1].max_severity \in SeveritiesOf(i)
        /\ \A i \in critical : EntryOf(e, containers[i].name)[1].max_severity = 3
        /\ result.returned.summary.critical_containers >= Cardinality(critical)

\* C30: in the sweep's report every container whose status is not
\* "running" is among the containers with issues and not among the healthy
\* ones, with max_severity at least medium, and at least high when its exit
\* code is not 0, whatever its log holds and whether or not the log could
\* be fetched.
C30_NotRunningHasIssues ==
  SweepReport =>
    LET r == result.returned
    IN  \A i \in DOMAIN containers :
          containers[i].status # "running" =>
            /\ Len(EntryOf(r.containers_with_issues, containers[i].name)) = 1
            /\ "healthy_containers" \in DOMAIN r =>
                 \A k \in DOMAIN r.healthy_containers :
                   r.healthy_containers[k].name # containers[i].name
            /\ \A k \in DOMAIN r.containers_with_issues :
                 r.containers_with_issues[k].container.name = containers[i].name =>
                   /\ r.containers_with_issues[k].max_severity >= SeverityIndex("medium")
                   /\ containers[i].exit_code # 0 =>
                        r.containers_with_issues[k].max_severity >= SeverityIndex("high")
                   /\ \E m \in DOMAIN r.containers_with_issues[k].issues :
                        r.containers_with_issues[k].issues[m].type = "container_not_running"

\* a report that lists its healthy containers, with a container that
\* exited with code 1 and whose log cannot be fetched, of max severity high,
\* and a paused container, whose log is not fetched, of max severity medium
C30_Witness ==
  /\ SweepReport
  /\ "healthy_containers" \in DOMAIN result.returned
  /\ \E i, j \in DOMAIN containers :
       /\ containers[i].status = "exited" /\ containers[i].exit_code # 0
       /\ containers[i].logs_error # None
       /\ EntryOf(result.returned.containers_with_issues, containers[i].name) # <<>>
       /\ EntryOf(result.returned.containers_with_issues, containers[i].name)[1].max_severity
            = SeverityIndex("high")
       /\ containers[j].status = "paused"
       /\ EntryOf(result.returned.containers_with_issues, containers[j].name) # <<>>
       /\ EntryOf(result.returned.containers_with_issues, containers[j].name)[1].max_severity
            = SeverityIndex("medium")

====
